---- MODULE Spec2Model ----
(***************************************************************************)
(* Entity resolution and record merging of the Kenyan MPs scraper:         *)
(* name normalisation, the match cascade of mergeWithExistingData, the     *)
(* field merges of MP.updateFrom / updateMissingFields / mergeWikipediaData*)
(* and the fuzzy matcher of matchScorecardWithMPs.                         *)
(*                                                                         *)
(* A JavaScript string held in a field is a TLA+ string; wherever the code *)
(* looks inside a string (toUpperCase, trim, replace, split, includes) the *)
(* model works on its characters, a sequence of one-character strings that *)
(* Chars gives for every string of the model.                              *)
(***************************************************************************)
EXTENDS Integers, Sequences, FiniteSets, TLC

\* ------------------------------------------------------------------------
\* Strings
\* ------------------------------------------------------------------------

\* the value `undefined` of a missing property
Undefined == "<undefined>"

\* JavaScript truthiness of a string-or-undefined value
Truthy(s) == s # "" /\ s # Undefined

LowerChars == <<"a","b","c","d","e","f","g","h","i","j","k","l","m",
                "n","o","p","q","r","s","t","u","v","w","x","y","z">>
UpperChars == <<"A","B","C","D","E","F","G","H","I","J","K","L","M",
                "N","O","P","Q","R","S","T","U","V","W","X","Y","Z">>

UpperChar(c) ==
  IF \E i \in 1..Len(LowerChars) : LowerChars[i] = c
    THEN UpperChars[CHOOSE i \in 1..Len(LowerChars) : LowerChars[i] = c]
    ELSE c

\* String.prototype.toUpperCase
toUpperCase(s) == [i \in 1..Len(s) |-> UpperChar(s[i])]

\* the characters \s matches
IsSpace(c) == c = " "

\* String.prototype.trim
RECURSIVE TrimLeft(_)
TrimLeft(s) == IF s # <<>> /\ IsSpace(Head(s)) THEN TrimLeft(Tail(s)) ELSE s

RECURSIVE TrimRight(_)
TrimRight(s) ==
  IF s # <<>> /\ IsSpace(s[Len(s)]) THEN TrimRight(SubSeq(s, 1, Len(s) - 1)) ELSE s

trim(s) == TrimRight(TrimLeft(s))

\* s.replace(/\s+/g, ' ')
RECURSIVE CollapseSpaces(_)
CollapseSpaces(s) ==
  IF s = <<>> THEN <<>>
  ELSE IF IsSpace(Head(s))
    THEN <<" ">> \o CollapseSpaces(TrimLeft(s))
    ELSE <<Head(s)>> \o CollapseSpaces(Tail(s))

\* s.replace(/,/g, ' ')
CommasToSpaces(s) == [i \in 1..Len(s) |-> IF s[i] = "," THEN " " ELSE s[i]]

\* whether pat occurs in s at position i
OccursAt(s, pat, i) ==
  /\ i >= 1
  /\ i + Len(pat) - 1 <= Len(s)
  /\ SubSeq(s, i, i + Len(pat) - 1) = pat

\* String.prototype.includes
includes(s, pat) == \E i \in 1..(Len(s) - Len(pat) + 1) : OccursAt(s, pat, i)

\* the position after an optional "." at position j
SkipDot(s, j) == IF j <= Len(s) /\ s[j] = "." THEN j + 1 ELSE j

\* the position after the run of whitespace that starts at position j
RECURSIVE SkipSpaces(_, _)
SkipSpaces(s, j) == IF j <= Len(s) /\ IsSpace(s[j]) THEN SkipSpaces(s, j + 1) ELSE j

\* the leftmost position from i on at which pat occurs in s, 0 if none
RECURSIVE IndexFrom(_, _, _)
IndexFrom(s, pat, i) ==
  IF i + Len(pat) - 1 > Len(s) THEN 0
  ELSE IF OccursAt(s, pat, i) THEN i
  ELSE IndexFrom(s, pat, i + 1)

\* s.replace(/TITLE\.?\s*/, ''): the leftmost occurrence of the letters of
\* title, wherever it stands, with a following period and whitespace
RemoveTitle(s, title) ==
  LET i == IndexFrom(s, title, 1)
  IN  IF i = 0 THEN s
      ELSE SubSeq(s, 1, i - 1)
             \o SubSeq(s, SkipSpaces(s, SkipDot(s, i + Len(title))), Len(s))

\* s.replace(/TITLE\.\s*/, ''): as RemoveTitle, the period required
RemoveDottedTitle(s, title) == RemoveTitle(s, title \o <<".">>)

\* position after a match of /COL\.?\s*RTD\.?\s*/ starting at i, 0 if none
ColRtdEnd(s, i) ==
  IF OccursAt(s, <<"C","O","L">>, i)
    THEN LET j == SkipSpaces(s, SkipDot(s, i + 3))
         IN  IF OccursAt(s, <<"R","T","D">>, j)
               THEN SkipSpaces(s, SkipDot(s, j + 3))
               ELSE 0
    ELSE 0

\* the leftmost position from i on at which /COL\.?\s*RTD\.?\s*/ matches
RECURSIVE ColRtdFrom(_, _)
ColRtdFrom(s, i) ==
  IF i > Len(s) THEN 0
  ELSE IF ColRtdEnd(s, i) # 0 THEN i
  ELSE ColRtdFrom(s, i + 1)

\* s.replace(/COL\.?\s*RTD\.?\s*/, '')
RemoveColRtd(s) ==
  LET i == ColRtdFrom(s, 1)
  IN  IF i = 0 THEN s
      ELSE SubSeq(s, 1, i - 1) \o SubSeq(s, ColRtdEnd(s, i), Len(s))

\* s.replace(/\(.*?\)/, ''): the first "(" up to the first ")" after it
RemoveParenthetical(s) ==
  LET i == IndexFrom(s, <<"(">>, 1)
      j == IF i = 0 THEN 0 ELSE IndexFrom(s, <<")">>, i + 1)
  IN  IF j = 0 THEN s
      ELSE SubSeq(s, 1, i - 1) \o SubSeq(s, j + 1, Len(s))

\* String.prototype.split(' '): never empty, "" splits to [""]
RECURSIVE split(_)
split(s) ==
  LET i == IndexFrom(s, <<" ">>, 1)
  IN  IF i = 0 THEN <<s>>
      ELSE <<SubSeq(s, 1, i - 1)>> \o split(SubSeq(s, i + 1, Len(s)))

\* Math.ceil(n / 2)
CeilHalf(n) == (n + 1) \div 2

\* ------------------------------------------------------------------------
\* Name normalisation
\* ------------------------------------------------------------------------

normalizeNameForComparison(name) ==
  LET s0 == toUpperCase(name)
      s1 == RemoveTitle(s0, <<"H","O","N">>)
      s2 == RemoveParenthetical(s1)
      s3 == RemoveTitle(s2, <<"D","R">>)
      s4 == RemoveTitle(s3, <<"P","R","O","F">>)
      s5 == RemoveTitle(s4, <<"E","N","G">>)
      s6 == RemoveTitle(s5, <<"A","M","B">>)
      s7 == RemoveTitle(s6, <<"C","P","A">>)
      s8 == RemoveColRtd(s7)
  IN  trim(CollapseSpaces(CommasToSpaces(s8)))

\* ------------------------------------------------------------------------
\* JavaScript values
\* ------------------------------------------------------------------------

\* a || b on string-or-undefined values
Either(a, b) == IF Truthy(a) THEN a ELSE b

\* wikipediaData: `undefined`, or an object with an optional biography
WdUndefined == [defined |-> FALSE, biography |-> Undefined]
\* dataSources: `undefined`, or a list of source names
NoSources == <<Undefined>>
WdEmpty == [defined |-> TRUE, biography |-> Undefined]
WdBio(b) == [defined |-> TRUE, biography |-> b]

\* a plain object used as a map: its keys in insertion order, each with its
\* value; NoMP is the `undefined` a missing key reads as
NoMP == 0

HasKey(map, k) == \E i \in 1..Len(map) : map[i].key = k

Get(map, k) ==
  IF HasKey(map, k)
    THEN map[CHOOSE i \in 1..Len(map) : map[i].key = k].val
    ELSE NoMP

\* (mutant) the first value stored under a key is kept
PutKeepingFirst(map, k, v) ==
  IF HasKey(map, k) THEN map ELSE Append(map, [key |-> k, val |-> v])

\* map[k] = v: an existing key keeps its place and takes the new value
Put(map, k, v) ==
  IF HasKey(map, k)
    THEN [i \in 1..Len(map) |->
            IF map[i].key = k THEN [key |-> k, val |-> v] ELSE map[i]]
    ELSE Append(map, [key |-> k, val |-> v])

\* a list-valued entry of a map, [] when the key is missing
GetList(map, k) ==
  IF HasKey(map, k)
    THEN map[CHOOSE i \in 1..Len(map) : map[i].key = k].val
    ELSE <<>>

\* ------------------------------------------------------------------------
\* Input data: existing entities and incoming records
\* ------------------------------------------------------------------------

\* the characters of the strings the code looks inside
Chars(str) ==
  CASE str = "" -> <<>>
    [] str = "HON. JOHN MWANGI" -> <<"H","O","N","."," ","J","O","H","N"," ","M","W","A","N","G","I">>
    [] str = "Dr. John Mwangi" -> <<"D","r","."," ","J","o","h","n"," ","M","w","a","n","g","i">>
    [] str = "JOHN MWANGI" -> <<"J","O","H","N"," ","M","W","A","N","G","I">>
    [] str = "PETER KAMAU OUMA" -> <<"P","E","T","E","R"," ","K","A","M","A","U"," ","O","U","M","A">>
    [] str = "Peter Kamau Ouma" -> <<"P","e","t","e","r"," ","K","a","m","a","u"," ","O","u","m","a">>
    [] str = "PAUL KAMAU OUMA" -> <<"P","A","U","L"," ","K","A","M","A","U"," ","O","U","M","A">>
    [] str = "PETER NJERI WAFULA" -> <<"P","E","T","E","R"," ","N","J","E","R","I"," ","W","A","F","U","L","A">>
    [] str = "Mary Wanjiru" -> <<"M","a","r","y"," ","W","a","n","j","i","r","u">>
    [] str = "M. Wanjiru" -> <<"M","."," ","W","a","n","j","i","r","u">>
    [] str = "HON." -> <<"H","O","N",".">>
    [] str = "Starehe" -> <<"S","t","a","r","e","h","e">>
    [] str = " STAREHE" -> <<" ","S","T","A","R","E","H","E">>
    [] str = "Dagoretti North" -> <<"D","a","g","o","r","e","t","t","i"," ","N","o","r","t","h">>
    [] str = "Nairobi" -> <<"N","a","i","r","o","b","i">>
    [] str = "NAIROBI " -> <<"N","A","I","R","O","B","I"," ">>
    [] str = "Health" -> <<"H","e","a","l","t","h">>
    [] str = " Health" -> <<" ","H","e","a","l","t","h">>
    [] str = "Finance" -> <<"F","i","n","a","n","c","e">>
    [] str = "Budget" -> <<"B","u","d","g","e","t">>
    [] str = "Teacher" -> <<"T","e","a","c","h","e","r">>
    [] str = "RUTH KIPTOO (MS.)" -> <<"R","U","T","H"," ","K","I","P","T","O","O"," ","(","M","S",".",")">>
    [] str = "Then he won the seat" -> <<"T","h","e","n"," ","h","e"," ","w","o","n"," ","t","h","e"," ","s","e","a","t">>
    [] str = "Then she won the seat" -> <<"T","h","e","n"," ","s","h","e"," ","w","o","n"," ","t","h","e"," ","s","e","a","t">>
    [] str = "There she and her aide met his team" -> <<"T","h","e","r","e"," ","s","h","e"," ","a","n","d"," ","h","e","r"," ","a","i","d","e"," ","m","e","t"," ","h","i","s"," ","t","e","a","m">>
    [] str = "Born in Kisumu" -> <<"B","o","r","n"," ","i","n"," ","K","i","s","u","m","u">>
    [] str = "Then he and she met" -> <<"T","h","e","n"," ","h","e"," ","a","n","d"," ","s","h","e"," ","m","e","t">>
    [] str = "Kisumu Central" -> <<"K","i","s","u","m","u"," ","C","e","n","t","r","a","l">>
    [] str = "KURIA WA KIMANI" -> <<"K","U","R","I","A"," ","W","A"," ","K","I","M","A","N","I">>
    [] str = "Ali Moi" -> <<"A","l","i"," ","M","o","i">>

\* entities as loaded from the enhanced MP data file
eHonJohn ==
  [name |-> "HON. JOHN MWANGI", constituency |-> "", county |-> "",
   party |-> "", gender |-> "Unknown", wikipediaUrl |-> "",
   wikipediaData |-> WdEmpty, dataSources |-> <<"parliament">>]
ePeter ==
  [name |-> "PETER KAMAU OUMA", constituency |-> " STAREHE",
   county |-> "Nairobi", party |-> "ODM", gender |-> "Male",
   wikipediaUrl |-> "w/Peter", wikipediaData |-> WdBio("bio P"),
   dataSources |-> <<"parliament", "wikipedia">>]
eMWanjiru ==
  [name |-> "M. Wanjiru", constituency |-> "Starehe", county |-> "",
   party |-> "", gender |-> "", wikipediaUrl |-> Undefined,
   wikipediaData |-> WdUndefined, dataSources |-> NoSources]
eJohn ==
  [name |-> "JOHN MWANGI", constituency |-> "Dagoretti North",
   county |-> "NAIROBI ", party |-> "UDA", gender |-> "Male",
   wikipediaUrl |-> "", wikipediaData |-> WdEmpty,
   dataSources |-> <<"parliament">>]

eKuria ==
  [name |-> "KURIA WA KIMANI", constituency |-> "", county |-> "",
   party |-> "UDA", gender |-> "Male", wikipediaUrl |-> "",
   wikipediaData |-> WdEmpty, dataSources |-> <<"parliament">>]

EntityPool == {eHonJohn, ePeter, eMWanjiru, eJohn, eKuria}

\* records as extracted from Wikipedia
rDrJohn ==
  [name |-> "Dr. John Mwangi", constituency |-> "Dagoretti North",
   county |-> Undefined, party |-> "UDA", gender |-> "Male",
   wikipediaUrl |-> "w/John", wikipediaData |-> WdBio("bio J"),
   dataSources |-> NoSources]
rMary ==
  [name |-> "Mary Wanjiru", constituency |-> "Starehe", county |-> Undefined,
   party |-> Undefined, gender |-> "Female", wikipediaUrl |-> Undefined,
   wikipediaData |-> WdUndefined, dataSources |-> NoSources]
rPaul ==
  [name |-> "PAUL KAMAU OUMA", constituency |-> Undefined,
   county |-> Undefined, party |-> "UDA", gender |-> Undefined,
   wikipediaUrl |-> Undefined, wikipediaData |-> WdEmpty,
   dataSources |-> NoSources]
rPaulNairobi ==
  [name |-> "PAUL KAMAU OUMA", constituency |-> Undefined,
   county |-> "NAIROBI ", party |-> Undefined, gender |-> "Male",
   wikipediaUrl |-> "w/John", wikipediaData |-> WdUndefined,
   dataSources |-> NoSources]
rPeterNjeri ==
  [name |-> "PETER NJERI WAFULA", constituency |-> "Dagoretti North",
   county |-> "Nairobi", party |-> "ODM", gender |-> Undefined,
   wikipediaUrl |-> "w/Peter", wikipediaData |-> WdBio("bio P"),
   dataSources |-> NoSources]
rHon ==
  [name |-> "HON.", constituency |-> Undefined, county |-> Undefined,
   party |-> "ODM", gender |-> "Female", wikipediaUrl |-> "w/John",
   wikipediaData |-> WdBio("bio J"), dataSources |-> NoSources]
rPeter ==
  [name |-> "Peter Kamau Ouma", constituency |-> "Dagoretti North",
   county |-> Undefined, party |-> "UDA", gender |-> "Female",
   wikipediaUrl |-> "w/John", wikipediaData |-> WdUndefined,
   dataSources |-> NoSources]

rAli ==
  [name |-> "Ali Moi", constituency |-> Undefined, county |-> Undefined,
   party |-> "ODM", gender |-> "Male", wikipediaUrl |-> "w/Ali",
   wikipediaData |-> WdUndefined, dataSources |-> NoSources]

RecordPool ==
  {rDrJohn, rMary, rPaul, rPaulNairobi, rPeterNjeri, rHon, rPeter, rAli}

\* the names that occur in the model
Names == {e.name : e \in EntityPool \cup RecordPool}

\* normalizeNameForComparison tabulated over Names
NormalizedNames ==
  [name \in Names |-> normalizeNameForComparison(Chars(name))]

\* normalizeNameForComparison(name), read from the table
Normalized(name) == NormalizedNames[name]

\* the constituencies and counties that occur in the model
Regions ==
  {e.constituency : e \in EntityPool \cup RecordPool}
    \cup {e.county : e \in EntityPool \cup RecordPool}

\* region.toUpperCase().trim(), tabulated over Regions
NormalizedRegions ==
  [region \in {r \in Regions : Truthy(r)} |-> trim(toUpperCase(Chars(region)))]

\* mp.constituency.toUpperCase().trim(), the same for counties
normalizeRegion(region) == NormalizedRegions[region]

\* the most entities the existing list starts with
MaxExisting == 2
\* the most incoming records one run merges
MaxRecords == 2

\* all lists of at most n elements of S
RECURSIVE ListsUpTo(_, _)
ListsUpTo(S, n) ==
  IF n = 0 THEN {<<>>}
  ELSE LET shorter == ListsUpTo(S, n - 1)
       IN  shorter \cup {Append(l, e) : l \in shorter, e \in S}

\* ------------------------------------------------------------------------
\* class MP (src/models/mp.js)
\* ------------------------------------------------------------------------

VARIABLES
  mp,                 \* an MP object
  call                \* the method last called on mp, with its arguments

\* an array-valued property that is `undefined`
NoList == <<Undefined>>
IsArray(v) == v # NoList

\* the string-valued properties of an MP; county, status, profilePictureUrl
\* and leadershipPosition are treated like constituency and party
MPScalarKeys ==
  {"name", "gender", "constituency", "party", "email", "phone", "wikipediaUrl"}

\* the array-valued properties updateFrom merges
MPArrayProps == {"committees", "employmentHistory", "newsMentions"}

\* an object literal with the properties of an MP, all of them missing
NoData ==
  [name |-> Undefined, gender |-> Undefined, constituency |-> Undefined,
   party |-> Undefined, email |-> Undefined, phone |-> Undefined,
   wikipediaUrl |-> Undefined, committees |-> NoList,
   employmentHistory |-> NoList, newsMentions |-> NoList,
   wikipediaData |-> WdUndefined, dataSources |-> NoSources]

\* new MP(data)
MP(data) ==
  [name |-> Either(data.name, ""),
   gender |-> Either(data.gender, "Unknown"),
   constituency |-> Either(data.constituency, ""),
   party |-> Either(data.party, ""),
   email |-> Either(data.email, "Not available"),
   phone |-> Either(data.phone, "Not available"),
   committees |-> IF IsArray(data.committees) THEN data.committees ELSE <<>>,
   employmentHistory |->
     IF IsArray(data.employmentHistory) THEN data.employmentHistory ELSE <<>>,
   wikipediaUrl |-> Either(data.wikipediaUrl, ""),
   wikipediaData |->
     IF data.wikipediaData.defined THEN data.wikipediaData ELSE WdEmpty,
   newsMentions |->
     IF IsArray(data.newsMentions) THEN data.newsMentions ELSE <<>>,
   dataSources |->
     IF data.dataSources # NoSources THEN data.dataSources ELSE <<>>]

\* (mutant) the source is pushed without the includes test
addDataSourceAlways(this, source) ==
  [this EXCEPT !.dataSources = Append(@, source)]

\* mp.addDataSource(source)
addDataSource(this, source) ==
  IF \E i \in 1..Len(this.dataSources) : this.dataSources[i] = source
    THEN this
    ELSE [this EXCEPT !.dataSources = Append(@, source)]

\* [...new Set(list)]: each value once, at the place of its first occurrence
RECURSIVE Unique(_)
Unique(list) ==
  IF list = <<>> THEN <<>>
  ELSE LET front == Unique(SubSeq(list, 1, Len(list) - 1))
           last == list[Len(list)]
       IN  IF \E i \in 1..Len(front) : front[i] = last
             THEN front
             ELSE Append(front, last)

\* the Object.entries loop of updateFrom on one string-valued property
UpdatedScalar(current, value) ==
  IF ~Truthy(current) /\ Truthy(value) THEN value ELSE current

\* the arrayProp loop of updateFrom on one property
UpdatedArray(current, incoming) ==
  IF IsArray(incoming) THEN Unique(current \o incoming) ELSE current

\* { ...(this.wikipediaData || {}), ...sourceData.wikipediaData }
SpreadWikipediaData(current, incoming) ==
  [defined |-> TRUE,
   biography |-> IF incoming.biography # Undefined
                   THEN incoming.biography
                   ELSE IF current.defined THEN current.biography ELSE Undefined]

\* mp.updateFrom(sourceData, sourceName)
updateFrom(this, sourceData, sourceName) ==
  LET scalars ==
        [key \in DOMAIN this |->
           IF key \in MPScalarKeys
             THEN UpdatedScalar(this[key], sourceData[key])
             ELSE this[key]]
      sourced == addDataSource(scalars, sourceName)
      arrays ==
        [key \in DOMAIN sourced |->
           IF key \in MPArrayProps
             THEN UpdatedArray(sourced[key], sourceData[key])
             ELSE sourced[key]]
  IN  IF sourceData.wikipediaData.defined
        THEN [arrays EXCEPT
                !.wikipediaData =
                   SpreadWikipediaData(@, sourceData.wikipediaData),
                !.wikipediaUrl = Either(@, sourceData.wikipediaUrl)]
        ELSE arrays

\* the data MP objects are constructed from
dNothing == NoData
dScraped ==
  [NoData EXCEPT !.name = "JOHN MWANGI", !.gender = "Male",
                 !.constituency = "Starehe", !.party = "UDA",
                 !.email = "jm@parliament.go.ke",
                 !.committees = <<"Health">>,
                 !.dataSources = <<"parliament">>]
dListed ==
  [NoData EXCEPT !.name = "Mary Wanjiru",
                 !.committees = <<"Finance", "Health">>,
                 !.wikipediaUrl = "w/Mary",
                 !.wikipediaData = WdBio("bio M")]

MPDataPool == {dNothing, dScraped, dListed}

\* the sourceData objects updateFrom is called with
sGender ==
  [NoData EXCEPT !.gender = "Female", !.email = "mw@parliament.go.ke",
                 !.phone = "0700"]
sCommittees ==
  [NoData EXCEPT !.party = "ODM", !.committees = <<" Health", "Finance">>,
                 !.newsMentions = <<"Budget", "Budget">>]
sWikipedia ==
  [NoData EXCEPT !.name = "Mary Wanjiru", !.constituency = "Starehe",
                 !.wikipediaData = WdBio("bio W"), !.wikipediaUrl = "w/MW"]
sBare ==
  [NoData EXCEPT !.wikipediaData = WdEmpty, !.committees = <<>>,
                 !.employmentHistory = <<"Teacher">>]

SourceDataPool == {sGender, sCommittees, sWikipedia, sBare}

SourceNames == {"parliament", "wikipedia"}

NoCall == [op |-> "new", sourceData |-> NoData, sourceName |-> Undefined]

\* ------------------------------------------------------------------------
\* WikipediaScraper.mergeWithExistingData(wikipediaMPs, existingMPs)
\* ------------------------------------------------------------------------

VARIABLES
  loadedMPs,          \* the enhanced MP data as loaded, before the merge
  existingMPs,        \* the entity list; entities are referred to by position
  mpsByName,          \* normalized name -> entity
  mpsByConstituency,  \* constituency, uppercased and trimmed -> entity
  mpsByCounty,        \* county, uppercased and trimmed -> list of entities
  stats,              \* the five match counters
  wikipediaMPs,       \* the incoming records the forEach has processed so far
  matches,            \* per processed record: the entity found and matchType
  pc                  \* "start", "merging" or "done"

mergeVars ==
  <<loadedMPs, existingMPs, mpsByName, mpsByConstituency, mpsByCounty, stats,
    wikipediaMPs, matches, pc>>

mpVars == <<mp, call>>

\* the state of the other components
VARIABLES
  enhancedMPs,        \* the MP list the enrichment stages work on
  enrichedMPs,        \* the records mergeWikipediaData was called with
  enrichPc,           \* "raw", "enhanced", "fixed" or "merged"
  nameInput,          \* the name normalizeNameForComparison is given
  nameKey,            \* the key it returned
  normalizePc,        \* "input", "key" or "again"
  checkpointDir,      \* the files of the checkpoint directory
  clock,              \* the time new Date() gives, in milliseconds
  checkpoint,         \* what findLatestCheckpoint returned last
  runMPs,             \* the mps enrichMPsWithWikipediaData is given
  runEnrichedMPs,     \* its enrichedMPs
  runIndex,           \* its loop index i
  runPc,              \* "idle", "batching" or "returned"
  runResult,          \* the list it returned
  httpOptions,        \* options.maxRetries as given to new HttpClient(options)
  maxRetries,         \* this.maxRetries
  url,                \* the url of the request
  retries,            \* the local retries of _request
  attempts,           \* how often this.client[method] was called
  httpPc,             \* "ready", "trying", "returned" or "thrown"
  httpResult,         \* the data returned or the error thrown
  argv,               \* process.argv.slice(2)
  rawFile,            \* outputFiles.raw
  enhancedFile,       \* outputFiles.enhanced
  withWikipediaFile,  \* outputFiles.withWikipedia
  reportFile,         \* outputFiles.report
  mainPc,             \* where main stands
  started,            \* the stages entered, in order
  completed,          \* the stages that ran to their end
  failed,             \* the stage that ended the process
  exitCode,           \* the exit code of the process
  extractDir,         \* the checkpoint files of the extraction stage
  extractClock,       \* the time, in milliseconds
  allMPs,             \* allMPs of scrapeWikipediaMPs
  sourceIndex,        \* how many sources the loops have been through
  extractPc,          \* "idle", "fetching" or "returned"
  extractResult,      \* what scrapeWikipediaMPs returned
  extractCalls,       \* how often scrapeWikipediaMPs was called
  slowMPs,            \* allMPs of the sequential scraper: the page each row came from
  currentPage,        \* currentPage of scrapeAllMPs
  hasMorePages,       \* hasMorePages of scrapeAllMPs
  consecutiveFailures,\* consecutiveFailures of scrapeAllMPs
  requested,          \* the page requested last, -1 before the first request
  timeouts,           \* how many requests timed out
  slowPc,             \* "looping" or "done"
  scrapedMPs,         \* this.allMPs of the BaseScraper: the page and the row of each MP
  maxPage,            \* maxPage of scrapeAllMPs
  start,              \* start of the batch loop
  tasks,              \* the page tasks of the batch: the rows pushed and whether the task goes on
  saveIntervalId,     \* "none", "active" or "cleared"
  progressSaved,      \* when the timer last called saveProgress: "never", "running" or "finished"
  batchPc             \* "first", "launch", "running", "returned" or "thrown"

enrichVars == <<enhancedMPs, enrichedMPs, enrichPc>>
normalizeVars == <<nameInput, nameKey, normalizePc>>
checkpointVars == <<checkpointDir, clock, checkpoint, runMPs, runEnrichedMPs, runIndex, runPc, runResult>>
httpVars == <<httpOptions, maxRetries, url, retries, attempts, httpPc, httpResult>>
mainVars == <<argv, rawFile, enhancedFile, withWikipediaFile, reportFile, mainPc, started, completed, failed, exitCode>>
extractVars == <<extractDir, extractClock, allMPs, sourceIndex, extractPc, extractResult, extractCalls>>
slowVars == <<slowMPs, currentPage, hasMorePages, consecutiveFailures, requested, timeouts, slowPc>>
batchVars == <<scrapedMPs, maxPage, start, tasks, saveIntervalId, progressSaved, batchPc>>

vars == <<mergeVars, mpVars, enrichVars, normalizeVars, checkpointVars, httpVars, mainVars, extractVars, slowVars, batchVars>>

\* what the steps of one component leave alone
exceptMerge == <<mpVars, enrichVars, normalizeVars, checkpointVars, httpVars, mainVars, extractVars, slowVars, batchVars>>
exceptMP == <<mergeVars, enrichVars, normalizeVars, checkpointVars, httpVars, mainVars, extractVars, slowVars, batchVars>>
exceptEnrich == <<mergeVars, mpVars, normalizeVars, checkpointVars, httpVars, mainVars, extractVars, slowVars, batchVars>>
exceptNormalize == <<mergeVars, mpVars, enrichVars, checkpointVars, httpVars, mainVars, extractVars, slowVars, batchVars>>
exceptCheckpoint == <<mergeVars, mpVars, enrichVars, normalizeVars, httpVars, mainVars, extractVars, slowVars, batchVars>>
exceptHttp == <<mergeVars, mpVars, enrichVars, normalizeVars, checkpointVars, mainVars, extractVars, slowVars, batchVars>>
exceptMain == <<mergeVars, mpVars, enrichVars, normalizeVars, checkpointVars, httpVars, extractVars, slowVars, batchVars>>
exceptExtract == <<mergeVars, mpVars, enrichVars, normalizeVars, checkpointVars, httpVars, mainVars, slowVars, batchVars>>
exceptSlow == <<mergeVars, mpVars, enrichVars, normalizeVars, checkpointVars, httpVars, mainVars, extractVars, batchVars>>
exceptBatch == <<mergeVars, mpVars, enrichVars, normalizeVars, checkpointVars, httpVars, mainVars, extractVars, slowVars>>

\* a component that is not running
IdleMerge ==
  /\ loadedMPs = <<>>
  /\ existingMPs = <<>>
  /\ mpsByName = <<>>
  /\ mpsByConstituency = <<>>
  /\ mpsByCounty = <<>>
  /\ stats = [directMatches |-> 0, constituencyMatches |-> 0,
              countyFuzzyMatches |-> 0, fuzzyMatches |-> 0, noMatches |-> 0]
  /\ wikipediaMPs = <<>>
  /\ matches = <<>>
  /\ pc = "done"
IdleMP ==
  /\ mp = MP(NoData)
  /\ call = NoCall
IdleEnrich ==
  /\ enhancedMPs = <<>>
  /\ enrichedMPs = <<>>
  /\ enrichPc = "merged"
IdleNormalize ==
  /\ nameInput = <<>>
  /\ nameKey = <<>>
  /\ normalizePc = "again"
IdleCheckpoint ==
  /\ checkpointDir = {}
  /\ clock = 0
  /\ checkpoint = [stage |-> <<>>, isNull |-> TRUE, data |-> <<>>]
  /\ runMPs = <<>>
  /\ runEnrichedMPs = <<>>
  /\ runIndex = 0
  /\ runPc = "returned"
  /\ runResult = <<>>
IdleHttp ==
  /\ httpOptions = [defined |-> FALSE, value |-> 0]
  /\ maxRetries = 0
  /\ url = ""
  /\ retries = 0
  /\ attempts = 0
  /\ httpPc = "returned"
  /\ httpResult = [data |-> "", error |-> 0]
IdleMain ==
  /\ argv = <<>>
  /\ rawFile = "missing"
  /\ enhancedFile = "missing"
  /\ withWikipediaFile = "missing"
  /\ reportFile = "missing"
  /\ mainPc = "done"
  /\ started = <<>>
  /\ completed = {}
  /\ failed = ""
  /\ exitCode = 0
IdleExtract ==
  /\ extractDir = {}
  /\ extractClock = 0
  /\ allMPs = <<>>
  /\ sourceIndex = 0
  /\ extractPc = "returned"
  /\ extractResult = <<>>
  /\ extractCalls = 0
IdleSlow ==
  /\ slowMPs = <<>>
  /\ currentPage = 0
  /\ hasMorePages = TRUE
  /\ consecutiveFailures = 0
  /\ requested = -1
  /\ timeouts = 0
  /\ slowPc = "done"
IdleBatch ==
  /\ scrapedMPs = <<>>
  /\ maxPage = 0
  /\ start = 0
  /\ tasks = <<>>
  /\ saveIntervalId = "none"
  /\ progressSaved = "never"
  /\ batchPc = "returned"

\* every component but one is not running
IdleExceptMerge ==
  /\ IdleMP
  /\ IdleEnrich
  /\ IdleNormalize
  /\ IdleCheckpoint
  /\ IdleHttp
  /\ IdleMain
  /\ IdleExtract
  /\ IdleSlow
  /\ IdleBatch
IdleExceptMP ==
  /\ IdleMerge
  /\ IdleEnrich
  /\ IdleNormalize
  /\ IdleCheckpoint
  /\ IdleHttp
  /\ IdleMain
  /\ IdleExtract
  /\ IdleSlow
  /\ IdleBatch
IdleExceptEnrich ==
  /\ IdleMerge
  /\ IdleMP
  /\ IdleNormalize
  /\ IdleCheckpoint
  /\ IdleHttp
  /\ IdleMain
  /\ IdleExtract
  /\ IdleSlow
  /\ IdleBatch
IdleExceptNormalize ==
  /\ IdleMerge
  /\ IdleMP
  /\ IdleEnrich
  /\ IdleCheckpoint
  /\ IdleHttp
  /\ IdleMain
  /\ IdleExtract
  /\ IdleSlow
  /\ IdleBatch
IdleExceptCheckpoint ==
  /\ IdleMerge
  /\ IdleMP
  /\ IdleEnrich
  /\ IdleNormalize
  /\ IdleHttp
  /\ IdleMain
  /\ IdleExtract
  /\ IdleSlow
  /\ IdleBatch
IdleExceptHttp ==
  /\ IdleMerge
  /\ IdleMP
  /\ IdleEnrich
  /\ IdleNormalize
  /\ IdleCheckpoint
  /\ IdleMain
  /\ IdleExtract
  /\ IdleSlow
  /\ IdleBatch
IdleExceptMain ==
  /\ IdleMerge
  /\ IdleMP
  /\ IdleEnrich
  /\ IdleNormalize
  /\ IdleCheckpoint
  /\ IdleHttp
  /\ IdleExtract
  /\ IdleSlow
  /\ IdleBatch
IdleExceptExtract ==
  /\ IdleMerge
  /\ IdleMP
  /\ IdleEnrich
  /\ IdleNormalize
  /\ IdleCheckpoint
  /\ IdleHttp
  /\ IdleMain
  /\ IdleSlow
  /\ IdleBatch
IdleExceptSlow ==
  /\ IdleMerge
  /\ IdleMP
  /\ IdleEnrich
  /\ IdleNormalize
  /\ IdleCheckpoint
  /\ IdleHttp
  /\ IdleMain
  /\ IdleExtract
  /\ IdleBatch
IdleExceptBatch ==
  /\ IdleMerge
  /\ IdleMP
  /\ IdleEnrich
  /\ IdleNormalize
  /\ IdleCheckpoint
  /\ IdleHttp
  /\ IdleMain
  /\ IdleExtract
  /\ IdleSlow

\* the name index after the first n entities were indexed
RECURSIVE IndexByName(_, _)
IndexByName(mps, n) ==
  IF n = 0 THEN <<>>
  ELSE Put(IndexByName(mps, n - 1), Normalized(mps[n].name), n)

\* (mutant) a constituency is indexed for its first entity only
RECURSIVE IndexByConstituencyFirst(_, _)
IndexByConstituencyFirst(mps, n) ==
  IF n = 0 THEN <<>>
  ELSE LET before == IndexByConstituencyFirst(mps, n - 1)
       IN  IF /\ Truthy(mps[n].constituency)
              /\ ~HasKey(before, normalizeRegion(mps[n].constituency))
             THEN Put(before, normalizeRegion(mps[n].constituency), n)
             ELSE before

\* the constituency index after the first n entities were indexed
RECURSIVE IndexByConstituency(_, _)
IndexByConstituency(mps, n) ==
  IF n = 0 THEN <<>>
  ELSE LET before == IndexByConstituency(mps, n - 1)
       IN  IF Truthy(mps[n].constituency)
             THEN Put(before, normalizeRegion(mps[n].constituency), n)
             ELSE before

\* the county index after the first n entities were indexed
RECURSIVE IndexByCounty(_, _)
IndexByCounty(mps, n) ==
  IF n = 0 THEN <<>>
  ELSE LET before == IndexByCounty(mps, n - 1)
       IN  IF Truthy(mps[n].county)
             THEN LET k == normalizeRegion(mps[n].county)
                  IN  Put(before, k, Append(GetList(before, k), n))
             ELSE before

\* tier 1: let existingMP = mpsByName[normalizedName]
NameTier(normalizedName) == Get(mpsByName, normalizedName)

\* tier 2: the entity the constituency index holds for the record
ConstituencyTier(wikiMP) ==
  IF Truthy(wikiMP.constituency)
    THEN Get(mpsByConstituency, normalizeRegion(wikiMP.constituency))
    ELSE NoMP

\* the number of name parts equal to a part of the county MP's name and
\* longer than 2 characters
CountyMatchingParts(nameParts, mpNameParts) ==
  Cardinality({p \in 1..Len(nameParts) :
                 \E i \in 1..Len(mpNameParts) :
                    mpNameParts[i] = nameParts[p] /\ Len(nameParts[p]) > 2})

\* matchingParts.length >= 2 for one MP of the county
IsCountyMatch(nameParts, countyMP) ==
  CountyMatchingParts(nameParts,
                      split(Normalized(countyMP.name))) >= 2

\* the first of countyMPs, from position i on, that is a county match
RECURSIVE FirstCountyMatch(_, _, _)
FirstCountyMatch(nameParts, countyMPs, i) ==
  IF i > Len(countyMPs) THEN NoMP
  ELSE IF IsCountyMatch(nameParts, existingMPs[countyMPs[i]]) THEN countyMPs[i]
  ELSE FirstCountyMatch(nameParts, countyMPs, i + 1)

\* tier 3: the first entity of the record's county with two equal name parts
CountyTier(wikiMP, normalizedName) ==
  IF Truthy(wikiMP.county)
    THEN FirstCountyMatch(split(normalizedName),
                          GetList(mpsByCounty, normalizeRegion(wikiMP.county)),
                          1)
    ELSE NoMP

\* normalizedName.split(' ').filter(part => part.length > 3)
SignificantParts(normalizedName) ==
  SelectSeq(split(normalizedName), LAMBDA part : Len(part) > 3)

\* the number of significant parts that contain, or are contained in, some
\* part of the entity's indexed name
MatchingParts(nameParts, mpNameParts) ==
  Cardinality({p \in 1..Len(nameParts) :
                 \E i \in 1..Len(mpNameParts) :
                    \/ includes(mpNameParts[i], nameParts[p])
                    \/ includes(nameParts[p], mpNameParts[i])})

\* (mutant) the threshold rounded down
IsFuzzyMatchFloor(nameParts, mpName) ==
  MatchingParts(nameParts, split(mpName)) >= Len(nameParts) \div 2

\* matchingParts.length >= Math.ceil(nameParts.length / 2)
IsFuzzyMatch(nameParts, mpName) ==
  MatchingParts(nameParts, split(mpName)) >= CeilHalf(Len(nameParts))

\* the first entry of the name index, from position i on, in Object.entries
\* order, whose key is a fuzzy match
RECURSIVE FirstFuzzyMatch(_, _)
FirstFuzzyMatch(nameParts, i) ==
  IF i > Len(mpsByName) THEN NoMP
  ELSE IF IsFuzzyMatch(nameParts, mpsByName[i].key) THEN mpsByName[i].val
  ELSE FirstFuzzyMatch(nameParts, i + 1)

\* tier 4: fuzzy matching on the significant name parts
FuzzyTier(normalizedName) ==
  FirstFuzzyMatch(SignificantParts(normalizedName), 1)

\* (mutant) the constituency tier consulted before the name tier
CascadeConstituencyFirst(byName, byConstituency, byCounty, byFuzzy) ==
  IF byConstituency # NoMP
    THEN [mp |-> byConstituency, matchType |-> "constituency"]
  ELSE IF byName # NoMP THEN [mp |-> byName, matchType |-> "none"]
  ELSE IF byCounty # NoMP THEN [mp |-> byCounty, matchType |-> "county_fuzzy"]
  ELSE IF byFuzzy # NoMP THEN [mp |-> byFuzzy, matchType |-> "fuzzy"]
  ELSE [mp |-> NoMP, matchType |-> "none"]

\* the result of the cascade, given what each tier finds: a tier counts only
\* when the tiers before it found nothing; matchType stays 'none' on a
\* direct name match and on no match
Cascade(byName, byConstituency, byCounty, byFuzzy) ==
  IF byName # NoMP THEN [mp |-> byName, matchType |-> "none"]
  ELSE IF byConstituency # NoMP
    THEN [mp |-> byConstituency, matchType |-> "constituency"]
  ELSE IF byCounty # NoMP THEN [mp |-> byCounty, matchType |-> "county_fuzzy"]
  ELSE IF byFuzzy # NoMP THEN [mp |-> byFuzzy, matchType |-> "fuzzy"]
  ELSE [mp |-> NoMP, matchType |-> "none"]

\* the entity found for a record, and the matchType
FindMatch(wikiMP) ==
  LET normalizedName == Normalized(wikiMP.name)
  IN  Cascade(NameTier(normalizedName), ConstituencyTier(wikiMP),
              CountyTier(wikiMP, normalizedName), FuzzyTier(normalizedName))

\* existingMP.wikipediaData = wikiMP.wikipediaData || {}
MergedWikipediaData(existingMP, wikiMP) ==
  IF wikiMP.wikipediaData.defined THEN wikiMP.wikipediaData ELSE WdEmpty

\* if (!existingMP[field] && wikiMP[field]) existingMP[field] = wikiMP[field]
FillIfMissing(existing, incoming) ==
  IF ~Truthy(existing) /\ Truthy(incoming) THEN incoming ELSE existing

\* the gender rule, which also treats 'Unknown' as missing
MergedGender(existing, incoming) ==
  IF (~Truthy(existing) \/ existing = "Unknown") /\ Truthy(incoming)
    THEN incoming
    ELSE existing

\* arr.includes(source) || arr.push(source)
PushIfAbsent(sources, source) ==
  IF \E i \in 1..Len(sources) : sources[i] = source
    THEN sources
    ELSE Append(sources, source)

\* (mutant) 'wikipedia' pushed without the includes test
MergedDataSourcesAlwaysPush(sources) ==
  Append(IF sources = NoSources THEN <<"parliament">> ELSE sources, "wikipedia")

\* the dataSources of a matched entity after the merge
MergedDataSources(sources) ==
  PushIfAbsent(IF sources = NoSources THEN <<"parliament">> ELSE sources,
               "wikipedia")

\* the matched entity after the record was merged into it
MergeInto(existingMP, wikiMP) ==
  [existingMP EXCEPT
     !.wikipediaData = MergedWikipediaData(existingMP, wikiMP),
     !.wikipediaUrl = Either(existingMP.wikipediaUrl, wikiMP.wikipediaUrl),
     !.constituency = FillIfMissing(existingMP.constituency, wikiMP.constituency),
     !.county = FillIfMissing(existingMP.county, wikiMP.county),
     !.party = FillIfMissing(existingMP.party, wikiMP.party),
     !.gender = MergedGender(existingMP.gender, wikiMP.gender),
     !.dataSources = MergedDataSources(existingMP.dataSources)]

\* the entity an unmatched record becomes
NewEntity(wikiMP) == [wikiMP EXCEPT !.dataSources = <<"wikipedia">>]

\* (mutant) the direct counter incremented whenever matchType is 'none'
CounterOfMatchType(m) ==
  IF m.matchType = "none" THEN "directMatches"
  ELSE IF m.matchType = "constituency" THEN "constituencyMatches"
  ELSE IF m.matchType = "county_fuzzy" THEN "countyFuzzyMatches"
  ELSE "fuzzyMatches"

\* the counter a match result increments
CounterOf(m) ==
  IF m.mp = NoMP THEN "noMatches"
  ELSE IF m.matchType = "none" THEN "directMatches"
  ELSE IF m.matchType = "constituency" THEN "constituencyMatches"
  ELSE IF m.matchType = "county_fuzzy" THEN "countyFuzzyMatches"
  ELSE "fuzzyMatches"

\* (mutant) an unmatched record put in front of the list
MergeRecordIntoFront(mps, wikiMP, m) ==
  IF m.mp # NoMP
    THEN [mps EXCEPT ![m.mp] = MergeInto(mps[m.mp], wikiMP)]
    ELSE <<NewEntity(wikiMP)>> \o mps

\* the entity list after one record was matched and merged or appended
MergeRecordInto(mps, wikiMP, m) ==
  IF m.mp # NoMP
    THEN [mps EXCEPT ![m.mp] = MergeInto(mps[m.mp], wikiMP)]
    ELSE Append(mps, NewEntity(wikiMP))

Init ==
  /\ loadedMPs \in ListsUpTo(EntityPool, MaxExisting)
  /\ existingMPs = loadedMPs
  /\ mpsByName = <<>>
  /\ mpsByConstituency = <<>>
  /\ mpsByCounty = <<>>
  /\ stats = [directMatches |-> 0, constituencyMatches |-> 0,
              countyFuzzyMatches |-> 0, fuzzyMatches |-> 0, noMatches |-> 0]
  /\ wikipediaMPs = <<>>
  /\ matches = <<>>
  /\ pc = "start"
  /\ IdleExceptMerge

\* existingMPs.forEach(mp => { ... index ... })
IndexExisting ==
  /\ pc = "start"
  /\ mpsByName' = IndexByName(existingMPs, Len(existingMPs))
  /\ mpsByConstituency' = IndexByConstituency(existingMPs, Len(existingMPs))
  /\ mpsByCounty' = IndexByCounty(existingMPs, Len(existingMPs))
  /\ pc' = "merging"
  /\ UNCHANGED <<loadedMPs, existingMPs, stats, wikipediaMPs, matches>>
  /\ UNCHANGED exceptMerge

\* one iteration of wikipediaMPs.forEach(wikiMP => { ... })
MergeRecord ==
  /\ pc = "merging"
  /\ Len(wikipediaMPs) < MaxRecords
  /\ \E wikiMP \in RecordPool :
       LET m == FindMatch(wikiMP)
       IN  /\ existingMPs' = MergeRecordInto(existingMPs, wikiMP, m)
           /\ stats' = [stats EXCEPT ![CounterOf(m)] = @ + 1]
           /\ wikipediaMPs' = Append(wikipediaMPs, wikiMP)
           /\ matches' = Append(matches, m)
  /\ UNCHANGED <<loadedMPs, mpsByName, mpsByConstituency, mpsByCounty, pc>>
  /\ UNCHANGED exceptMerge

\* the forEach is over: return existingMPs
ReturnMerged ==
  /\ pc = "merging"
  /\ pc' = "done"
  /\ UNCHANGED <<loadedMPs, existingMPs, mpsByName, mpsByConstituency,
                 mpsByCounty, stats, wikipediaMPs, matches>>
  /\ UNCHANGED exceptMerge

Next == IndexExisting \/ MergeRecord \/ ReturnMerged

Spec == Init /\ [][Next]_vars

\* ------------------------------------------------------------------------
\* Calls on an MP object
\* ------------------------------------------------------------------------

\* an MP was constructed; no merge is running
InitMP ==
  /\ mp \in {MP(data) : data \in MPDataPool}
  /\ call = NoCall
  /\ IdleExceptMP

\* mp.updateFrom(sourceData, sourceName)
UpdateFrom ==
  /\ \E sourceData \in SourceDataPool, sourceName \in SourceNames :
       /\ mp' = updateFrom(mp, sourceData, sourceName)
       /\ call' = [op |-> "updateFrom", sourceData |-> sourceData,
                   sourceName |-> sourceName]
  /\ UNCHANGED exceptMP

\* mp.addDataSource(source)
AddDataSource ==
  /\ \E source \in SourceNames :
       /\ mp' = addDataSource(mp, source)
       /\ call' = [op |-> "addDataSource", sourceData |-> NoData,
                   sourceName |-> source]
  /\ UNCHANGED exceptMP

NextMP == UpdateFrom \/ AddDataSource

SpecMP == InitMP /\ [][NextMP]_vars

\* ------------------------------------------------------------------------
\* Properties of mergeWithExistingData
\* ------------------------------------------------------------------------

Processed == 1..Len(wikipediaMPs)
Loaded == 1..Len(loadedMPs)

\* the normalized-name key of an entity or record
KeyOf(e) == Normalized(e.name)

\* entity e carries the constituency of record r (uppercased, trimmed)
SameConstituency(e, r) ==
  /\ Truthy(e.constituency)
  /\ Truthy(r.constituency)
  /\ normalizeRegion(e.constituency) = normalizeRegion(r.constituency)

NameHit(r) == \E i \in Loaded : KeyOf(loadedMPs[i]) = KeyOf(r)
ConstituencyHit(r) == \E i \in Loaded : SameConstituency(loadedMPs[i], r)

\* the position in existingMPs of the entity the unmatched record j became
InsertedAt(j) ==
  Len(loadedMPs) + Cardinality({h \in 1..j : matches[h].mp = NoMP})

ScalarFields == {"constituency", "county", "party", "gender", "wikipediaUrl"}

\* a field value that is neither empty nor the field's default
IsPopulated(field, v) ==
  Truthy(v) /\ ~(field = "gender" /\ v = "Unknown")

WdPopulated(d) == d.defined /\ d # WdEmpty

\* C1 (as claimed): no merge changes a field of an entity that was non-empty
\* before the merge.
C1_PopulatedFieldsKept ==
  [][\A i \in 1..Len(existingMPs) :
       /\ \A f \in ScalarFields :
            IsPopulated(f, existingMPs[i][f])
              => existingMPs'[i][f] = existingMPs[i][f]
       /\ WdPopulated(existingMPs[i].wikipediaData)
            => existingMPs'[i].wikipediaData = existingMPs[i].wikipediaData]_vars

\* C2: the tiers are consulted in the order name, constituency, partial
\* name. A record whose normalized name is that of a loaded entity is
\* resolved by name to an entity of that name, whatever its constituency and
\* name tokens match; a record that misses by name and carries the
\* constituency of a loaded entity is resolved by constituency; the
\* partial-name tier decides only when both miss.
C2_TierOrder ==
  \A k \in Processed :
    LET r == wikipediaMPs[k]
        m == matches[k]
    IN  /\ NameHit(r) =>
              /\ m.matchType = "none"
              /\ m.mp \in Loaded
              /\ KeyOf(loadedMPs[m.mp]) = KeyOf(r)
        /\ (~NameHit(r) /\ ConstituencyHit(r)) =>
              /\ m.matchType = "constituency"
              /\ m.mp \in Loaded
              /\ SameConstituency(loadedMPs[m.mp], r)
        /\ m.matchType = "fuzzy" => (~NameHit(r) /\ ~ConstituencyHit(r))

\* a record resolved by name although another entity, of another name,
\* carries its constituency
C2_Witness ==
  \E k \in Processed :
    /\ NameHit(wikipediaMPs[k])
    /\ matches[k].matchType = "none"
    /\ \E i \in Loaded :
         /\ i # matches[k].mp
         /\ SameConstituency(loadedMPs[i], wikipediaMPs[k])
         /\ KeyOf(loadedMPs[i]) # KeyOf(wikipediaMPs[k])

\* C3 (as claimed): a record whose normalized name is that of a loaded
\* entity e is resolved to e itself by the exact-name tier.
C3_ExactNameResolvesToSelf ==
  \A k \in Processed : \A i \in Loaded :
    KeyOf(loadedMPs[i]) = KeyOf(wikipediaMPs[k])
      => matches[k] = [mp |-> i, matchType |-> "none"]

\* C3 (amended): the record is resolved by the exact-name tier to the last
\* loaded entity of that normalized name.
C3_ExactNameResolvesToLast ==
  \A k \in Processed : \A i \in Loaded :
    (/\ KeyOf(loadedMPs[i]) = KeyOf(wikipediaMPs[k])
     /\ \A j \in Loaded : j > i => KeyOf(loadedMPs[j]) # KeyOf(wikipediaMPs[k]))
      => matches[k] = [mp |-> i, matchType |-> "none"]

\* two loaded entities share the record's normalized name and the record
\* went to the later one
C3_Witness ==
  \E k \in Processed : \E i, j \in Loaded :
    /\ i < j
    /\ KeyOf(loadedMPs[i]) = KeyOf(wikipediaMPs[k])
    /\ KeyOf(loadedMPs[j]) = KeyOf(wikipediaMPs[k])
    /\ matches[k].mp = j

\* the candidate tokens longer than 3 characters of a normalized name
LongTokensOfKey(key) ==
  LET tokens == split(key)
  IN  {t \in 1..Len(tokens) : Len(tokens[t]) > 3}

\* those of them that are a substring or a superstring of a token of other
SharedTokensOfKeys(key, other) ==
  LET tokens == split(key)
      others == split(other)
  IN  {t \in LongTokensOfKey(key) :
         \E o \in 1..Len(others) :
            \/ includes(others[o], tokens[t])
            \/ includes(tokens[t], others[o])}

\* both counts tabulated over the names of the model
LongTokenCounts ==
  [name \in Names |-> Cardinality(LongTokensOfKey(Normalized(name)))]
SharedTokenCounts ==
  [name \in Names |->
     [other \in Names |->
        Cardinality(SharedTokensOfKeys(Normalized(name), Normalized(other)))]]

\* n: the number of tokens of record r longer than 3 characters
LongTokens(r) == LongTokenCounts[r.name]
\* the number of them shared with entity e
SharedTokens(r, e) == SharedTokenCounts[r.name][e.name]

\* C4: the partial-name tier resolves a candidate to an entity exactly when
\* at least ceil(n/2) of its n tokens longer than 3 characters are a
\* substring or superstring of a token of the entity (twice the count is at
\* least n): a record it resolved meets the threshold with its entity, and a
\* record left unmatched meets it with no loaded entity.
C4_PartialNameThreshold ==
  \A k \in Processed :
    LET r == wikipediaMPs[k]
        m == matches[k]
        n == LongTokens(r)
    IN  /\ m.matchType = "fuzzy" =>
              /\ m.mp \in Loaded
              /\ 2 * SharedTokens(r, loadedMPs[m.mp]) >= n
        /\ m.mp = NoMP =>
              \A i \in Loaded :
                 2 * SharedTokens(r, loadedMPs[i]) < n

\* one run in which 2 shared tokens of 3 matched and 1 of 3 did not
C4_Witness ==
  /\ \E k \in Processed :
       /\ matches[k].matchType = "fuzzy"
       /\ LongTokens(wikipediaMPs[k]) = 3
       /\ SharedTokens(wikipediaMPs[k], loadedMPs[matches[k].mp]) = 2
  /\ \E k \in Processed : \E i \in Loaded :
       /\ matches[k].mp = NoMP
       /\ LongTokens(wikipediaMPs[k]) = 3
       /\ SharedTokens(wikipediaMPs[k], loadedMPs[i]) = 1

\* C5 (as claimed): a record whose normalized name is empty is never
\* resolved to an existing entity.
C5_EmptyNameUnmatchable ==
  \A k \in Processed :
    KeyOf(wikipediaMPs[k]) = <<>> => matches[k].mp = NoMP

\* the loaded entities that carry the constituency of record r
Sharing(r) == {i \in Loaded : SameConstituency(loadedMPs[i], r)}

SourcesOf(e) ==
  IF e.dataSources = NoSources THEN {}
  ELSE {e.dataSources[i] : i \in 1..Len(e.dataSources)}

NoSourceTwice(e) ==
  e.dataSources # NoSources => Cardinality(SourcesOf(e)) = Len(e.dataSources)

\* C9: a merge never removes a source of an entity, the entity a record was
\* merged into has 'wikipedia' among its sources afterwards, and no source
\* is listed twice.
C9_DataSourcesOnlyGrow ==
  [][/\ \A i \in 1..Len(existingMPs) :
          /\ SourcesOf(existingMPs[i]) \subseteq SourcesOf(existingMPs'[i])
          /\ NoSourceTwice(existingMPs'[i])
     /\ Len(matches') > Len(matches) =>
          LET m == matches'[Len(matches')]
          IN  m.mp # NoMP => "wikipedia" \in SourcesOf(existingMPs'[m.mp])]_vars

\* a record was merged into an entity that already listed 'wikipedia'
C9_Witness ==
  \E k \in Processed :
    /\ matches[k].mp \in Loaded
    /\ "wikipedia" \in SourcesOf(loadedMPs[matches[k].mp])
    /\ existingMPs[matches[k].mp].dataSources = <<"parliament", "wikipedia">>

\* C10 (as claimed): a later record with the normalized name or the
\* constituency of an entity created earlier in the run from an unmatched
\* record resolves to that entity.
C10_InsertedEntityIsIndexed ==
  \A j, k \in Processed :
    (/\ j < k
     /\ matches[j].mp = NoMP
     /\ \/ KeyOf(wikipediaMPs[j]) = KeyOf(wikipediaMPs[k])
        \/ SameConstituency(wikipediaMPs[j], wikipediaMPs[k]))
      => matches[k].mp = InsertedAt(j)

\* ------------------------------------------------------------------------
\* Properties of MP.updateFrom
\* ------------------------------------------------------------------------

\* the value a field holds when nothing was ever supplied for it
IsDefault(field, v) ==
  \/ field = "gender" /\ v = "Unknown"
  \/ field \in {"email", "phone"} /\ v = "Not available"

\* C7 (as claimed): updateFrom sets a scalar field to the incoming value
\* exactly when the existing value is empty or the field's default (gender
\* 'Unknown', email/phone 'Not available') and the incoming value is
\* non-empty; in every other case the field keeps its value.
C7_ScalarFieldPolicy ==
  [][call'.op = "updateFrom" =>
       \A f \in MPScalarKeys :
         IF /\ ~Truthy(mp[f]) \/ IsDefault(f, mp[f])
            /\ Truthy(call'.sourceData[f])
           THEN mp'[f] = call'.sourceData[f]
           ELSE mp'[f] = mp[f]]_vars

ListEntries == {"Health", " Health", "Finance", "Budget", "Teacher"}

TrimmedEntries == [entry \in ListEntries |-> trim(Chars(entry))]

\* the entries of a list with their surrounding whitespace removed
TrimmedList(list) == [i \in 1..Len(list) |-> TrimmedEntries[list[i]]]

\* C8 (as claimed): after updateFrom each list field is the existing entries
\* followed by the incoming ones, entries equal after trimming kept once, at
\* the place of their first occurrence.
C8_ListUnionDedupTrimmed ==
  [][call'.op = "updateFrom" =>
       \A p \in MPArrayProps :
         LET incoming == IF IsArray(call'.sourceData[p])
                           THEN call'.sourceData[p]
                           ELSE <<>>
         IN  TrimmedList(mp'[p]) = Unique(TrimmedList(mp[p] \o incoming))]_vars

\* ------------------------------------------------------------------------
\* Idempotence of merging
\* ------------------------------------------------------------------------

\* the entities mergeWithExistingData can hold after at most two merges
MergedOnce == {MergeInto(e, r) : e \in EntityPool, r \in RecordPool}
MergedEntities ==
  EntityPool \cup MergedOnce
    \cup {MergeInto(e, r) : e \in MergedOnce, r \in RecordPool}

\* C11: merging is idempotent. Applying updateFrom with the same sourceData
\* and sourceName a second time leaves the MP object, its list fields and its
\* dataSources as the first application left them; so does a second merge of
\* the same record into a matched entity by mergeWithExistingData.
C11_MergeIdempotent ==
  /\ \A sourceData \in SourceDataPool, sourceName \in SourceNames :
       LET once == updateFrom(mp, sourceData, sourceName)
       IN  updateFrom(once, sourceData, sourceName) = once
  /\ \A e \in MergedEntities, r \in RecordPool :
       MergeInto(MergeInto(e, r), r) = MergeInto(e, r)

\* C11 witness: an updateFrom call has changed the scalar fields, the lists,
\* the wikipediaData and the dataSources of the object, and repeating that
\* call leaves the object as it is.
C11_Witness ==
  /\ call.op = "updateFrom"
  /\ updateFrom(mp, call.sourceData, call.sourceName) = mp
  /\ Len(mp.committees) >= 2
  /\ Len(mp.dataSources) >= 2
  /\ mp.party = "ODM"
  /\ mp.wikipediaData = WdBio("bio W")

\* ------------------------------------------------------------------------
\* The enrichment stages: GenderEnricher.enrich, enrichMPData and
\* WikipediaScraper.mergeWikipediaData with updateMissingFields
\* ------------------------------------------------------------------------

\* String.prototype.toLowerCase
LowerChar(c) ==
  IF \E i \in 1..Len(UpperChars) : UpperChars[i] = c
    THEN LowerChars[CHOOSE i \in 1..Len(UpperChars) : UpperChars[i] = c]
    ELSE c
toLowerCase(s) == [i \in 1..Len(s) |-> LowerChar(s[i])]

\* indicators.some(indicator => nameUpper.includes(indicator))
IncludesSome(nameUpper, indicators) ==
  \E indicator \in indicators : includes(nameUpper, indicator)

FemaleTitles ==
  {<<"(","M","S",".",")">>, <<"(","M","R","S",".",")">>,
   <<" ","M","S"," ">>, <<" ","M","R","S"," ">>}
MaleTitles == {<<"(","M","R",".",")">>, <<" ","M","R"," ">>}
maleIndicators ==
  {<<"J","O","H","N">>, <<"D","A","V","I","D">>, <<"P","A","U","L">>,
   <<"G","E","O","R","G","E">>, <<"M","O","S","E","S">>}
femaleIndicators ==
  {<<"M","A","R","Y">>, <<"G","L","A","D","Y","S">>, <<"J","O","Y","C","E">>,
   <<"E","S","T","H","E","R">>, <<"S","A","R","A","H">>}
\* the indicators enrichMPData knows in addition
moreMaleIndicators ==
  {<<"J","O","S","E","P","H">>, <<"M","I","C","H","A","E","L">>,
   <<"R","O","B","E","R","T">>, <<"B","E","N","J","A","M","I","N">>}
moreFemaleIndicators ==
  {<<"J","A","N","E">>, <<"G","R","A","C","E">>,
   <<"M","A","R","G","A","R","E","T">>, <<"B","E","A","T","R","I","C","E">>}

\* inferGender(name)
inferGender(name) ==
  IF IncludesSome(name, FemaleTitles) THEN "Female"
  ELSE IF IncludesSome(name, MaleTitles) THEN "Male"
  ELSE IF IncludesSome(toUpperCase(name), maleIndicators) THEN "Male"
  ELSE IF IncludesSome(toUpperCase(name), femaleIndicators) THEN "Female"
  ELSE "Unknown"

\* the gender enrichMPData gives an MP whose gender is "Unknown"
FixedGender(name) ==
  IF IncludesSome(name, FemaleTitles) THEN "Female"
  ELSE IF IncludesSome(name, MaleTitles) THEN "Male"
  ELSE IF IncludesSome(toUpperCase(name),
                       maleIndicators \cup moreMaleIndicators) THEN "Male"
  ELSE IF IncludesSome(toUpperCase(name),
                       femaleIndicators \cup moreFemaleIndicators) THEN "Female"
  ELSE "Unknown"

\* wikipediaData as extractMPDetails fills it
NoInfobox == [defined |-> FALSE, constituency |-> Undefined, party |-> Undefined]
Infobox(constituency, party) ==
  [defined |-> TRUE, constituency |-> constituency, party |-> party]
NoDetails == [defined |-> FALSE, infobox |-> NoInfobox, biography |-> Undefined]
NoPage == [defined |-> TRUE, infobox |-> NoInfobox, biography |-> Undefined]
Details(infobox, biography) ==
  [defined |-> TRUE, infobox |-> infobox, biography |-> biography]

\* the pronoun test of updateMissingFields on a biography
PronounGender(biography) ==
  LET text == toLowerCase(biography)
  IN  IF includes(text, <<" ","h","e"," ">>)
           \/ includes(text, <<" ","h","i","s"," ">>)
        THEN "Male"
      ELSE IF includes(text, <<" ","s","h","e"," ">>)
                \/ includes(text, <<" ","h","e","r"," ">>)
        THEN "Female"
      ELSE Undefined

Biographies ==
  {"Then he won the seat", "Then she won the seat",
   "There she and her aide met his team", "Born in Kisumu",
   "Then he and she met"}

\* PronounGender tabulated over the biographies of the model
PronounGenders ==
  [biography \in Biographies |-> PronounGender(Chars(biography))]

\* (mutant) the pronoun test applied whatever gender the MP holds
HeuristicGenderAlways(gender, biography) ==
  IF Truthy(biography) /\ PronounGenders[biography] # Undefined
    THEN PronounGenders[biography]
    ELSE gender

\* the gender of mp after the "Update gender if missing" block
HeuristicGender(gender, biography) ==
  IF (~Truthy(gender) \/ gender = "Unknown") /\ Truthy(biography)
       /\ PronounGenders[biography] # Undefined
    THEN PronounGenders[biography]
    ELSE gender

\* updateMissingFields(mp, wikipediaMP)
updateMissingFields(this, wikipediaMP) ==
  LET filled ==
        [this EXCEPT
           !.constituency = FillIfMissing(@, wikipediaMP.constituency),
           !.party = FillIfMissing(@, wikipediaMP.party),
           !.gender = FillIfMissing(@, wikipediaMP.gender)]
      data == wikipediaMP.wikipediaData
  IN  IF data.defined /\ data.infobox.defined
        THEN [filled EXCEPT
                !.constituency = FillIfMissing(@, data.infobox.constituency),
                !.party = FillIfMissing(@, data.infobox.party),
                !.gender = HeuristicGender(@, data.biography)]
        ELSE filled

\* the MPs the enrichment stages start from
xHonJohn ==
  [name |-> "HON. JOHN MWANGI", gender |-> "Unknown", constituency |-> "",
   party |-> "", wikipediaUrl |-> Undefined, wikipediaData |-> NoDetails,
   dataSources |-> <<"parliament">>]
xMWanjiru ==
  [name |-> "M. Wanjiru", gender |-> "", constituency |-> "Starehe",
   party |-> "ODM", wikipediaUrl |-> Undefined, wikipediaData |-> NoDetails,
   dataSources |-> NoSources]
xPeter ==
  [name |-> "PETER KAMAU OUMA", gender |-> "Female",
   constituency |-> "Kisumu Central", party |-> "", wikipediaUrl |-> Undefined,
   wikipediaData |-> NoDetails, dataSources |-> <<"parliament">>]
xRuth ==
  [name |-> "RUTH KIPTOO (MS.)", gender |-> "Unknown", constituency |-> "",
   party |-> "UDA", wikipediaUrl |-> Undefined, wikipediaData |-> NoDetails,
   dataSources |-> <<"parliament">>]

EnhancedPool == {xHonJohn, xMWanjiru, xPeter, xRuth}

\* the record extractMPDetails makes of an MP: a copy with a page and its data
Enriched(this, wikipediaUrl, wikipediaData) ==
  [this EXCEPT !.wikipediaUrl = wikipediaUrl,
               !.wikipediaData = wikipediaData,
               !.dataSources = PushIfAbsent(IF @ = NoSources THEN <<>> ELSE @,
                                            "wikipedia")]

wJohnHe ==
  Enriched(xHonJohn, "w/John",
           Details(Infobox("Dagoretti North", "UDA"), "Then he won the seat"))
wJohnNone ==
  Enriched(xHonJohn, "w/John",
           Details(Infobox(Undefined, Undefined), "Born in Kisumu"))
wWanjiruMixed ==
  Enriched(xMWanjiru, "w/Wanjiru",
           Details(Infobox("Starehe", Undefined),
                   "There she and her aide met his team"))
wWanjiruShe ==
  Enriched(xMWanjiru, "w/Wanjiru",
           Details(Infobox(Undefined, "ODM"), "Then she won the seat"))
wPeterHe ==
  Enriched(xPeter, "w/Peter",
           Details(Infobox("Kisumu Central", "ODM"), "Then he won the seat"))
wRuthBoth ==
  Enriched(xRuth, "w/Ruth",
           Details(Infobox(Undefined, Undefined), "Then he and she met"))
\* a record of a page that was found under another spelling of the name
wMary ==
  [name |-> "Mary Wanjiru", gender |-> "Female", constituency |-> "Starehe",
   party |-> "", wikipediaUrl |-> "w/Mary", wikipediaData |-> NoPage,
   dataSources |-> <<"wikipedia">>]

EnrichedPool ==
  {wJohnHe, wJohnNone, wWanjiruMixed, wWanjiruShe, wPeterHe, wRuthBoth, wMary}

EnrichNames == {e.name : e \in EnhancedPool \cup EnrichedPool}

\* normalizeNameForComparison, inferGender and the gender fix of
\* enrichMPData, tabulated over EnrichNames
EnrichKeys ==
  [name \in EnrichNames |-> normalizeNameForComparison(Chars(name))]
InferredGenders == [name \in EnrichNames |-> inferGender(Chars(name))]
FixedGenders == [name \in EnrichNames |-> FixedGender(Chars(name))]

\* the most MPs the enrichment starts with
MaxEnhanced == 2
\* the most records one call of mergeWikipediaData is given
MaxEnriched == 2

\* GenderEnricher.enrich(mps)
GenderEnrich(mps) ==
  [i \in 1..Len(mps) |->
     IF ~Truthy(mps[i].gender) \/ mps[i].gender = "Unknown"
       THEN [mps[i] EXCEPT !.gender = InferredGenders[mps[i].name]]
       ELSE mps[i]]

\* the gender fix of enrichMPData(mps)
enrichMPData(mps) ==
  [i \in 1..Len(mps) |->
     IF mps[i].gender = "Unknown" /\ Truthy(mps[i].name)
       THEN [mps[i] EXCEPT !.gender = FixedGenders[mps[i].name]]
       ELSE mps[i]]

\* mpsByName of mergeWikipediaData after the first n MPs were indexed
RECURSIVE EnrichIndex(_, _)
EnrichIndex(mps, n) ==
  IF n = 0 THEN <<>>
  ELSE Put(EnrichIndex(mps, n - 1), EnrichKeys[mps[n].name], n)

\* the matched MP after one enriched record was merged into it
MergeEnriched(this, enrichedMP) ==
  updateMissingFields(
    [this EXCEPT
       !.wikipediaUrl = enrichedMP.wikipediaUrl,
       !.wikipediaData = enrichedMP.wikipediaData,
       !.dataSources = PushIfAbsent(IF @ = NoSources THEN <<"parliament">> ELSE @,
                                    "wikipedia")],
    enrichedMP)

\* existingMPs after the first n records of enrichedMPs.forEach; mpsByName is
\* the index built before the loop
RECURSIVE MergeEnrichedUpTo(_, _, _, _)
MergeEnrichedUpTo(mps, byName, records, n) ==
  IF n = 0 THEN mps
  ELSE LET before == MergeEnrichedUpTo(mps, byName, records, n - 1)
           found == Get(byName, EnrichKeys[records[n].name])
       IN  IF found # NoMP
             THEN [before EXCEPT ![found] = MergeEnriched(@, records[n])]
             ELSE Append(before, records[n])

\* mergeWikipediaData(existingMPs, enrichedMPs)
mergeWikipediaData(mps, records) ==
  MergeEnrichedUpTo(mps, EnrichIndex(mps, Len(mps)), records, Len(records))

\* the raw MP data was loaded; nothing else runs
InitEnrich ==
  /\ enhancedMPs \in ListsUpTo(EnhancedPool, MaxEnhanced) \ {<<>>}
  /\ enrichedMPs = <<>>
  /\ enrichPc = "raw"
  /\ IdleExceptEnrich

\* enrichedMPs = genderEnricher.enrich(enrichedMPs)
EnrichGender ==
  /\ enrichPc = "raw"
  /\ enhancedMPs' = GenderEnrich(enhancedMPs)
  /\ enrichPc' = "enhanced"
  /\ UNCHANGED enrichedMPs
  /\ UNCHANGED exceptEnrich

\* enrichMPData(mps) of the data enrichment script
EnrichMPData ==
  /\ enrichPc \in {"raw", "enhanced"}
  /\ enhancedMPs' = enrichMPData(enhancedMPs)
  /\ enrichPc' = "fixed"
  /\ UNCHANGED enrichedMPs
  /\ UNCHANGED exceptEnrich

\* mergedMPs = mergeWikipediaData(mps, enrichedMPs)
MergeWikipediaData ==
  /\ enrichPc \in {"enhanced", "fixed"}
  /\ \E records \in ListsUpTo(EnrichedPool, MaxEnriched) \ {<<>>} :
       /\ enhancedMPs' = mergeWikipediaData(enhancedMPs, records)
       /\ enrichedMPs' = records
  /\ enrichPc' = "merged"
  /\ UNCHANGED exceptEnrich

NextEnrich == EnrichGender \/ EnrichMPData \/ MergeWikipediaData

SpecEnrich == InitEnrich /\ [][NextEnrich]_vars

\* ------------------------------------------------------------------------
\* Properties of the enrichment stages
\* ------------------------------------------------------------------------

\* a gender that was stated: neither empty nor 'Unknown'
GenderIsSet(gender) == Truthy(gender) /\ gender # "Unknown"

GenderValues == {"", Undefined, "Unknown", "Male", "Female"}

\* C12: no merge or enrichment step changes the gender of an MP that holds a
\* value other than empty or 'Unknown': not GenderEnricher.enrich, not
\* enrichMPData, not mergeWikipediaData with the pronoun test of
\* updateMissingFields, and not the gender rule of mergeWithExistingData.
C12_SetGenderKept ==
  [][/\ \A i \in 1..Len(enhancedMPs) :
          GenderIsSet(enhancedMPs[i].gender)
            => enhancedMPs'[i].gender = enhancedMPs[i].gender
     /\ \A gender \in GenderValues, incoming \in GenderValues :
          GenderIsSet(gender) => MergedGender(gender, incoming) = gender]_vars

\* C12 witness: an MP whose gender was stated as Female was merged with a
\* record whose biography says "he", and is still Female.
C12_Witness ==
  /\ enrichPc = "merged"
  /\ \E i \in 1..Len(enhancedMPs) :
       /\ enhancedMPs[i].name = "PETER KAMAU OUMA"
       /\ enhancedMPs[i].wikipediaData = wPeterHe.wikipediaData
       /\ enhancedMPs[i].gender = "Female"

MaleForms == {<<"h","e">>, <<"h","i","m">>, <<"h","i","s">>}
FemaleForms == {<<"s","h","e">>, <<"h","e","r">>, <<"h","e","r","s">>}

\* how many words of a text are among the given pronoun forms
CountForms(text, forms) ==
  LET words == split(toLowerCase(text))
  IN  Cardinality({i \in 1..Len(words) : words[i] \in forms})

\* the gender the majority of the pronouns of each biography gives
MajorityGenders ==
  [biography \in Biographies |->
     LET male == CountForms(Chars(biography), MaleForms)
         female == CountForms(Chars(biography), FemaleForms)
     IN  IF male > female THEN "Male"
         ELSE IF female > male THEN "Female"
         ELSE "Unknown"]

\* the MP mergeWikipediaData merges a record into: the last of that name
MatchOf(mps, record) ==
  LET hits == {i \in 1..Len(mps) :
                 EnrichKeys[mps[i].name] = EnrichKeys[record.name]}
  IN  IF hits = {} THEN NoMP ELSE CHOOSE i \in hits : \A j \in hits : j <= i

\* C13 (as claimed): when the gender of an MP is unknown and the record
\* merged into it carries a biography, the pronoun heuristic sets the gender
\* to Male only if male-coded forms strictly outnumber female-coded ones, to
\* Female only if female-coded forms strictly outnumber male-coded ones, and
\* leaves it unknown when the counts are equal.
C13_PronounMajority ==
  [][(enrichPc' = "merged" /\ Len(enrichedMPs') = 1) =>
       LET record == enrichedMPs'[1]
           i == MatchOf(enhancedMPs, record)
       IN  (/\ i # NoMP
            /\ ~GenderIsSet(enhancedMPs[i].gender)
            /\ ~GenderIsSet(record.gender)
            /\ record.wikipediaData.infobox.defined
            /\ Truthy(record.wikipediaData.biography))
           => LET majority == MajorityGenders[record.wikipediaData.biography]
                  gender == enhancedMPs'[i].gender
              IN  IF majority = "Unknown"
                    THEN ~GenderIsSet(gender)
                    ELSE gender = majority]_vars

\* ------------------------------------------------------------------------
\* normalizeNameForComparison applied to names
\* ------------------------------------------------------------------------

\* the tokens names are made of: titles, a parenthetical and given names
NameTokens ==
  {<<"H","O","N",".">>, <<"D","r">>, <<"(","M","P",")">>,
   <<"A","N","T","H","O","N","Y">>, <<"J","O","H","N">>,
   <<"A","M","B","R","O","S","E">>}

\* the most tokens of a name
MaxTokens == 2

\* the names of at most n tokens, the tokens separated by one space
RECURSIVE NamesUpTo(_)
NamesUpTo(n) ==
  IF n = 1 THEN NameTokens
  ELSE LET shorter == NamesUpTo(n - 1)
       IN  shorter \cup {name \o <<" ">> \o token :
                           name \in shorter, token \in NameTokens}

\* a name arrives
InitNormalize ==
  /\ nameInput \in NamesUpTo(MaxTokens)
  /\ nameKey = <<>>
  /\ normalizePc = "input"
  /\ IdleExceptNormalize

\* key = normalizeNameForComparison(name)
Normalize ==
  /\ normalizePc = "input"
  /\ nameKey' = normalizeNameForComparison(nameInput)
  /\ normalizePc' = "key"
  /\ UNCHANGED nameInput
  /\ UNCHANGED exceptNormalize

\* key = normalizeNameForComparison(key)
NormalizeAgain ==
  /\ normalizePc = "key"
  /\ nameKey' = normalizeNameForComparison(nameKey)
  /\ normalizePc' = "again"
  /\ UNCHANGED nameInput
  /\ UNCHANGED exceptNormalize

NextNormalize == Normalize \/ NormalizeAgain

SpecNormalize == InitNormalize /\ [][NextNormalize]_vars

\* C14 (as claimed): normalizeNameForComparison is idempotent: the key of a
\* key is that key.
C14_NormalizeIdempotent ==
  normalizePc = "again" => nameKey = normalizeNameForComparison(nameInput)

\* the words of names that are no titles
PlainWords ==
  {<<"A","N","T","H","O","N","Y">>, <<"J","O","H","N">>,
   <<"A","M","B","R","O","S","E">>}

\* the words of a text, split at spaces
WordsOf(text) == {split(text)[i] : i \in 1..Len(split(text))}

\* C15 (as claimed): honorifics are removed only as whole tokens: every word
\* of the name that is no honorific stands intact in the key.
C15_WordsKeptIntact ==
  normalizePc = "key" =>
    \A word \in WordsOf(toUpperCase(nameInput)) \cap PlainWords :
      word \in WordsOf(nameKey)

\* ------------------------------------------------------------------------
\* Checkpoints: saveCheckpoint, findLatestCheckpoint (utils/file-utils) and
\* the stage enrichMPsWithWikipediaData that resumes from them
\* ------------------------------------------------------------------------

\* the characters of file names, in the order of their character codes
CharOrder ==
  <<"-", ".", "0", "1", "2", "3", "4", "5", "6", "7", "8", "9", "T", "Z", "_",
    "a", "b", "c", "d", "e", "f", "g", "h", "i", "j", "k", "l", "m",
    "n", "o", "p", "q", "r", "s", "t", "u", "v", "w", "x", "y", "z">>
CharCode(c) == CHOOSE i \in 1..Len(CharOrder) : CharOrder[i] = c

\* a < b as Array.prototype.sort compares strings
RECURSIVE StringLess(_, _)
StringLess(a, b) ==
  IF b = <<>> THEN FALSE
  ELSE IF a = <<>> THEN TRUE
  ELSE IF a[1] # b[1] THEN CharCode(a[1]) < CharCode(b[1])
  ELSE StringLess(Tail(a), Tail(b))

\* String.prototype.startsWith
startsWith(s, prefix) ==
  Len(prefix) <= Len(s) /\ SubSeq(s, 1, Len(prefix)) = prefix

Digits == <<"0", "1", "2", "3", "4", "5", "6", "7", "8", "9">>

\* new Date().toISOString().replace(/[:.]/g, '-') at time t of the run's
\* second: the milliseconds are the last three digits
Timestamp(t) ==
  <<"2","0","2","5","-","0","1","-","0","1","T","0","0","-","0","0","-","0","0","-">>
    \o <<Digits[((t \div 100) % 10) + 1], Digits[((t \div 10) % 10) + 1],
         Digits[(t % 10) + 1]>>
    \o <<"Z">>

\* the stages that save checkpoints
WikipediaExtraction ==
  <<"w","i","k","i","p","e","d","i","a","_","e","x","t","r","a","c","t","i","o","n">>
WikipediaEnrichment ==
  <<"w","i","k","i","p","e","d","i","a","_","e","n","r","i","c","h","m","e","n","t">>
Stages == {WikipediaExtraction, WikipediaEnrichment}

\* `checkpoint_${stage}_`
CheckpointPrefix(stage) ==
  <<"c","h","e","c","k","p","o","i","n","t","_">> \o stage \o <<"_">>

\* `checkpoint_${stage}_${timestamp}.json`
CheckpointName(stage, t) ==
  CheckpointPrefix(stage) \o Timestamp(t) \o <<".","j","s","o","n">>

\* the properties of the records that are checkpointed
CheckpointKeys == {"name", "wikipediaUrl"}

\* JSON.stringify of a record: the properties that are not undefined
Stringify(record) ==
  {<<key, record[key]>> : key \in {k \in DOMAIN record : record[k] # Undefined}}

\* JSON.parse of a stringified record; a missing property reads as undefined
Parse(json) ==
  [key \in CheckpointKeys |->
     IF \E pair \in json : pair[1] = key
       THEN (CHOOSE pair \in json : pair[1] = key)[2]
       ELSE Undefined]

StringifyList(list) == [i \in 1..Len(list) |-> Stringify(list[i])]
ParseList(json) == [i \in 1..Len(json) |-> Parse(json[i])]

\* saveCheckpoint(stage, data) at time t: the directory afterwards; a file of
\* the same name is overwritten
saveCheckpoint(dir, stage, data, t) ==
  LET file == [name |-> CheckpointName(stage, t),
               content |-> [timestamp |-> t, stage |-> stage,
                            data |-> StringifyList(data)]]
  IN  {f \in dir : f.name # file.name} \cup {file}

\* null, as findLatestCheckpoint returns it
NoCheckpoint == [stage |-> <<>>, isNull |-> TRUE, data |-> <<>>]

\* (mutant) the files sorted but not reversed
findOldestCheckpoint(dir, stage) ==
  LET files == {f \in dir : startsWith(f.name, CheckpointPrefix(stage))}
  IN  IF files = {} THEN NoCheckpoint
      ELSE LET first == CHOOSE f \in files :
                          \A g \in files : g = f \/ StringLess(f.name, g.name)
           IN  [stage |-> first.content.stage, isNull |-> FALSE,
                data |-> ParseList(first.content.data)]

\* findLatestCheckpoint(stage)
findLatestCheckpoint(dir, stage) ==
  LET files == {f \in dir : startsWith(f.name, CheckpointPrefix(stage))}
  IN  IF files = {} THEN NoCheckpoint
      ELSE LET first == CHOOSE f \in files :
                          \A g \in files : g = f \/ StringLess(g.name, f.name)
           IN  [stage |-> first.content.stage, isNull |-> FALSE,
                data |-> ParseList(first.content.data)]

\* the records checkpoints are made of
kJohn == [name |-> "JOHN MWANGI", wikipediaUrl |-> Undefined]
kMary == [name |-> "Mary Wanjiru", wikipediaUrl |-> "w/Mary"]
kPeter == [name |-> "PETER KAMAU OUMA", wikipediaUrl |-> ""]

\* the lists the stages save
CheckpointData == {<<kJohn>>, <<kMary, kJohn, kPeter>>}

\* the last millisecond of the clock
MaxClock == 2

\* the directory is empty; no stage runs
InitCheckpoint ==
  /\ checkpointDir = {}
  /\ clock = 0
  /\ checkpoint = NoCheckpoint
  /\ runMPs = <<>>
  /\ runEnrichedMPs = <<>>
  /\ runIndex = 0
  /\ runPc = "returned"
  /\ runResult = <<>>
  /\ IdleExceptCheckpoint

\* time passes
Tick ==
  /\ clock < MaxClock
  /\ clock' = clock + 1
  /\ UNCHANGED <<checkpointDir, checkpoint, runMPs, runEnrichedMPs, runIndex,
                 runPc, runResult>>
  /\ UNCHANGED exceptCheckpoint

\* saveCheckpoint(stage, data)
SaveCheckpoint ==
  /\ \E stage \in Stages, data \in CheckpointData :
       checkpointDir' = saveCheckpoint(checkpointDir, stage, data, clock)
  /\ UNCHANGED <<clock, checkpoint, runMPs, runEnrichedMPs, runIndex, runPc,
                 runResult>>
  /\ UNCHANGED exceptCheckpoint

\* findLatestCheckpoint(stage)
FindLatestCheckpoint ==
  /\ \E stage \in Stages :
       checkpoint' = findLatestCheckpoint(checkpointDir, stage)
  /\ UNCHANGED <<checkpointDir, clock, runMPs, runEnrichedMPs, runIndex,
                 runPc, runResult>>
  /\ UNCHANGED exceptCheckpoint

NextCheckpoint == Tick \/ SaveCheckpoint \/ FindLatestCheckpoint

SpecCheckpoint == InitCheckpoint /\ [][NextCheckpoint]_vars

\* the data of the most recent saveCheckpoint(stage, data) call, read from
\* what the files record: their stage and their time
LatestSaved(stage) ==
  LET saved == {f \in checkpointDir : f.content.stage = stage}
  IN  IF saved = {} THEN NoCheckpoint
      ELSE LET last == CHOOSE f \in saved :
                         \A g \in saved : g.content.timestamp <= f.content.timestamp
           IN  [stage |-> stage, isNull |-> FALSE,
                data |-> ParseList(last.content.data)]

\* the list a file was saved from
SavedFrom(file) ==
  CHOOSE data \in CheckpointData : StringifyList(data) = file.content.data

\* C17: after any sequence of saveCheckpoint calls, findLatestCheckpoint(stage)
\* returns the data of the most recent saveCheckpoint(stage, data) call for
\* that stage, element-wise equal to the saved list and in its order (null
\* when the stage saved nothing).
C17_LatestCheckpointRoundTrip ==
  \A stage \in Stages :
    LET latest == findLatestCheckpoint(checkpointDir, stage)
    IN  /\ latest = LatestSaved(stage)
        /\ ~latest.isNull =>
             \E f \in checkpointDir :
               /\ f.content.stage = stage
               /\ \A g \in checkpointDir :
                    g.content.stage = stage
                      => g.content.timestamp <= f.content.timestamp
               /\ latest.data = SavedFrom(f)

\* C17 witness: a stage saved a list, later saved another one, the other
\* stage saved after that, and findLatestCheckpoint returned the stage's
\* second list.
C17_Witness ==
  /\ \E f, g, h \in checkpointDir :
       /\ f.content.stage = WikipediaEnrichment
       /\ g.content.stage = WikipediaEnrichment
       /\ h.content.stage = WikipediaExtraction
       /\ f.content.timestamp < g.content.timestamp
       /\ g.content.timestamp < h.content.timestamp
       /\ f.content.data # g.content.data
       /\ checkpoint.data = SavedFrom(g)
  /\ checkpoint.stage = WikipediaEnrichment
  /\ ~checkpoint.isNull

\* ------------------------------------------------------------------------
\* enrichMPsWithWikipediaData(mps), interrupted and run again
\* ------------------------------------------------------------------------

\* const batchSize = 5
batchSize == 5

\* the most MPs the stage is given
MaxInput == 6

MPNames ==
  <<"MP 1", "MP 2", "MP 3", "MP 4", "MP 5", "MP 6", "MP 7", "MP 8">>

\* the first n MPs of the enhanced data
FirstMPs(n) == [i \in 1..n |-> [name |-> MPNames[i], wikipediaUrl |-> Undefined]]

\* getWikipediaDetails(mp) for each MP of a batch
WikipediaDetails(batch) ==
  [i \in 1..Len(batch) |-> [batch[i] EXCEPT !.wikipediaUrl = "w/page"]]

Min(a, b) == IF a < b THEN a ELSE b

\* the stage is called with its input; the checkpoint directory is empty
InitResume ==
  /\ checkpointDir = {}
  /\ clock = 0
  /\ checkpoint = NoCheckpoint
  /\ runMPs \in {FirstMPs(n) : n \in 0..MaxInput}
  /\ runEnrichedMPs = <<>>
  /\ runIndex = 0
  /\ runPc = "idle"
  /\ runResult = <<>>
  /\ IdleExceptCheckpoint

\* the call reaches the loop, or returns the data of the latest checkpoint
StartRun ==
  /\ runPc = "idle"
  /\ checkpoint' = findLatestCheckpoint(checkpointDir, WikipediaEnrichment)
  /\ IF ~checkpoint'.isNull
       THEN /\ runResult' = checkpoint'.data
            /\ runPc' = "returned"
            /\ UNCHANGED <<runEnrichedMPs, runIndex>>
       ELSE /\ runEnrichedMPs' = <<>>
            /\ runIndex' = 0
            /\ runPc' = "batching"
            /\ UNCHANGED runResult
  /\ UNCHANGED <<checkpointDir, clock, runMPs>>
  /\ UNCHANGED exceptCheckpoint

\* one iteration of the batch loop, with its saveCheckpoint
ProcessBatch ==
  /\ runPc = "batching"
  /\ runIndex < Len(runMPs)
  /\ LET batch == SubSeq(runMPs, runIndex + 1,
                         Min(runIndex + batchSize, Len(runMPs)))
         enriched == runEnrichedMPs \o WikipediaDetails(batch)
     IN  /\ runEnrichedMPs' = enriched
         /\ checkpointDir' =
              IF Len(enriched) > 0
                THEN saveCheckpoint(checkpointDir, WikipediaEnrichment,
                                    enriched, clock)
                ELSE checkpointDir
  /\ runIndex' = runIndex + batchSize
  /\ UNCHANGED <<clock, checkpoint, runMPs, runPc, runResult>>
  /\ UNCHANGED exceptCheckpoint

\* the loop is over: return enrichedMPs
ReturnRun ==
  /\ runPc = "batching"
  /\ runIndex >= Len(runMPs)
  /\ runResult' = runEnrichedMPs
  /\ runPc' = "returned"
  /\ UNCHANGED <<checkpointDir, clock, checkpoint, runMPs, runEnrichedMPs,
                 runIndex>>
  /\ UNCHANGED exceptCheckpoint

\* the process is stopped between two batches; the files stay
Interrupt ==
  /\ runPc = "batching"
  /\ runEnrichedMPs' = <<>>
  /\ runIndex' = 0
  /\ runPc' = "idle"
  /\ UNCHANGED <<checkpointDir, clock, checkpoint, runMPs, runResult>>
  /\ UNCHANGED exceptCheckpoint

NextResume == Tick \/ StartRun \/ ProcessBatch \/ ReturnRun \/ Interrupt

SpecResume == InitResume /\ [][NextResume]_vars

\* C16 (as claimed): a run that follows an interrupted one starts from the
\* checkpointed records and continues with the rest of its input, so what
\* the stage returns holds every record an uninterrupted run produces.
C16_ResumedRunIsComplete ==
  runPc = "returned" => runResult = WikipediaDetails(runMPs)

\* ------------------------------------------------------------------------
\* The merge step of the pipeline and constituencies
\* ------------------------------------------------------------------------

\* constituency.toUpperCase().trim(), tabulated over the enrichment data
EnrichRegions ==
  [region \in {e.constituency : e \in EnhancedPool \cup EnrichedPool} \ {"", Undefined}
     |-> trim(toUpperCase(Chars(region)))]

\* two records carry one constituency
SharesConstituency(e, r) ==
  /\ Truthy(e.constituency)
  /\ Truthy(r.constituency)
  /\ EnrichRegions[e.constituency] = EnrichRegions[r.constituency]

\* C18 (as claimed): a record without an exact-name match whose constituency
\* (uppercased, trimmed) is that of an existing MP is merged into that MP by
\* the merge step main runs, and the list does not grow.
C18_ConstituencyMatchMerges ==
  [][(enrichPc' = "merged" /\ Len(enrichedMPs') = 1) =>
       LET record == enrichedMPs'[1]
       IN  (/\ MatchOf(enhancedMPs, record) = NoMP
            /\ \E i \in 1..Len(enhancedMPs) :
                 SharesConstituency(enhancedMPs[i], record))
           => /\ Len(enhancedMPs') = Len(enhancedMPs)
              /\ \E i \in 1..Len(enhancedMPs) :
                   /\ SharesConstituency(enhancedMPs[i], record)
                   /\ enhancedMPs'[i].wikipediaUrl = record.wikipediaUrl]_vars

\* ------------------------------------------------------------------------
\* class HttpClient (utils/http-client.js)
\* ------------------------------------------------------------------------

\* httpConfig.maxRetries
httpConfigMaxRetries == 3

\* the largest options.maxRetries a client is constructed with
MaxOption == 3

\* options.maxRetries: missing, or a number
NoOption == [defined |-> FALSE, value |-> 0]
Option(n) == [defined |-> TRUE, value |-> n]

\* options.maxRetries || httpConfig.maxRetries
ConstructedMaxRetries(option) ==
  IF option.defined /\ option.value # 0
    THEN option.value
    ELSE httpConfigMaxRetries

\* retries === this.maxRetries
LastTry(n, max) == n = max

Urls == {"w/list", "w/page", "w/api"}

NoResult == [data |-> "", error |-> 0]

\* a client was constructed
InitHttp ==
  /\ httpOptions \in {NoOption} \cup {Option(n) : n \in 0..MaxOption}
  /\ maxRetries = ConstructedMaxRetries(httpOptions)
  /\ url = ""
  /\ retries = 0
  /\ attempts = 0
  /\ httpPc = "ready"
  /\ httpResult = NoResult
  /\ IdleExceptHttp

\* get(url): _request starts with retries = 0
Request ==
  /\ httpPc = "ready"
  /\ \E u \in Urls : url' = u
  /\ retries' = 0
  /\ httpPc' = IF 0 <= maxRetries THEN "trying" ELSE "returned"
  /\ UNCHANGED <<httpOptions, maxRetries, attempts, httpResult>>
  /\ UNCHANGED exceptHttp

\* an attempt succeeds: return response.data
AttemptSucceeds ==
  /\ httpPc = "trying"
  /\ attempts' = attempts + 1
  /\ httpResult' = [data |-> url, error |-> 0]
  /\ httpPc' = "returned"
  /\ UNCHANGED <<httpOptions, maxRetries, url, retries>>
  /\ UNCHANGED exceptHttp

\* an attempt fails: throw its error, or wait and try again
AttemptFails ==
  /\ httpPc = "trying"
  /\ attempts' = attempts + 1
  /\ IF LastTry(retries, maxRetries)
       THEN /\ httpResult' = [data |-> "", error |-> attempts + 1]
            /\ httpPc' = "thrown"
            /\ UNCHANGED retries
       ELSE /\ retries' = retries + 1
            /\ httpPc' = IF retries + 1 <= maxRetries THEN "trying" ELSE "returned"
            /\ UNCHANGED httpResult
  /\ UNCHANGED <<httpOptions, maxRetries, url>>
  /\ UNCHANGED exceptHttp

NextHttp == Request \/ AttemptSucceeds \/ AttemptFails

SpecHttp == InitHttp /\ [][NextHttp]_vars

\* the maxRetries the client was configured with
Configured ==
  IF httpOptions.defined THEN httpOptions.value ELSE httpConfigMaxRetries

\* C19 (as claimed): with a configured maxRetries of N, _request makes at
\* most N+1 attempts; it returns the data of the first successful attempt and
\* tries no more; when all N+1 attempts failed it throws the error of the
\* last one; it never returns without a value.
C19_AtMostNPlusOneAttempts ==
  /\ attempts <= Configured + 1
  /\ httpPc = "returned" => httpResult.data = url /\ httpResult.error = 0
  /\ httpPc = "thrown" =>
       /\ attempts = Configured + 1
       /\ httpResult.error = attempts

\* ------------------------------------------------------------------------
\* main (the command line entry point)
\* ------------------------------------------------------------------------

\* args[0] || 'all'
Command(args) == IF args = <<>> \/ args[1] = "" THEN "all" ELSE args[1]

\* command === stage || command === 'all'
Runs(stage, command) == command = stage \/ command = "all"

\* a file: "missing", "empty" (the list []), "data" (a list of MPs) or
\* "corrupt" (not JSON; loadJsonData throws)
FileStates == {"missing", "empty", "data", "corrupt"}

\* (mutant) !list
IsMissingInput(file) == file = "missing"

\* !list || list.length === 0
IsEmptyInput(file) == file = "missing" \/ file = "empty"

\* loadJsonData(withWikipedia) || loadJsonData(enhanced) || loadJsonData(raw):
\* the files that are read, and the first list that is not null
FinalRead(w, e, r) ==
  IF w # "missing" THEN <<w>>
  ELSE IF e # "missing" THEN <<w, e>>
  ELSE <<w, e, r>>

FinalMPs(w, e, r) == FinalRead(w, e, r)[Len(FinalRead(w, e, r))]

FinalThrows(w, e, r) == \E i \in 1..Len(FinalRead(w, e, r)) : FinalRead(w, e, r)[i] = "corrupt"

Arguments == {<<>>, <<"">>, <<"all">>, <<"scrape">>, <<"enrich">>, <<"wikipedia">>, <<"report">>}

\* the process starts; the output files are what earlier runs left
InitMain ==
  /\ argv \in Arguments
  /\ rawFile \in FileStates
  /\ enhancedFile \in FileStates
  /\ withWikipediaFile \in FileStates
  /\ reportFile \in {"missing", "data"}
  /\ mainPc = "scrape"
  /\ started = <<>>
  /\ completed = {}
  /\ failed = ""
  /\ exitCode = 0
  /\ IdleExceptMain

\* process.exit(1) in stage
Exit(stage) ==
  /\ mainPc' = "exited"
  /\ failed' = stage
  /\ exitCode' = 1

\* if (command === 'scrape' || command === 'all'): scrapeAllMPs is called
ScrapeBegin ==
  /\ mainPc = "scrape"
  /\ IF Runs("scrape", Command(argv))
       THEN /\ started' = Append(started, "scrape")
            /\ mainPc' = "scraping"
       ELSE /\ mainPc' = "enrich"
            /\ UNCHANGED started
  /\ UNCHANGED <<argv, rawFile, enhancedFile, withWikipediaFile, reportFile, completed, failed, exitCode>>
  /\ UNCHANGED exceptMain

\* await scrapeAllMPs() returns: the raw file holds this.allMPs
ScrapeCompletes ==
  /\ mainPc = "scraping"
  /\ \E mps \in {"empty", "data"} : rawFile' = mps
  /\ completed' = completed \cup {"scrape"}
  /\ mainPc' = "enrich"
  /\ UNCHANGED <<argv, enhancedFile, withWikipediaFile, reportFile, started, failed, exitCode>>
  /\ UNCHANGED exceptMain

\* await scrapeAllMPs() throws: catch, process.exit(1)
ScrapeThrows ==
  /\ mainPc = "scraping"
  /\ Exit("scrape")
  /\ UNCHANGED <<argv, rawFile, enhancedFile, withWikipediaFile, reportFile, started, completed>>
  /\ UNCHANGED exceptMain

\* the enrich stage up to the test of rawMPs
EnrichBegin ==
  /\ mainPc = "enrich"
  /\ IF Runs("enrich", Command(argv))
       THEN /\ started' = Append(started, "enrich")
            /\ IF rawFile = "corrupt" \/ IsEmptyInput(rawFile)
                 THEN Exit("enrich")
                 ELSE /\ mainPc' = "enriching"
                      /\ UNCHANGED <<failed, exitCode>>
       ELSE /\ mainPc' = "wikipedia"
            /\ UNCHANGED <<started, failed, exitCode>>
  /\ UNCHANGED <<argv, rawFile, enhancedFile, withWikipediaFile, reportFile, completed>>
  /\ UNCHANGED exceptMain

\* the four enrichers ran and the enhanced file was saved
EnrichCompletes ==
  /\ mainPc = "enriching"
  /\ enhancedFile' = rawFile
  /\ completed' = completed \cup {"enrich"}
  /\ mainPc' = "wikipedia"
  /\ UNCHANGED <<argv, rawFile, withWikipediaFile, reportFile, started, failed, exitCode>>
  /\ UNCHANGED exceptMain

\* an enricher or saveJsonData throws
EnrichThrows ==
  /\ mainPc = "enriching"
  /\ Exit("enrich")
  /\ UNCHANGED <<argv, rawFile, enhancedFile, withWikipediaFile, reportFile, started, completed>>
  /\ UNCHANGED exceptMain

\* the wikipedia stage up to the call of enrichMPsWithWikipedia
WikipediaBegin ==
  /\ mainPc = "wikipedia"
  /\ IF Runs("wikipedia", Command(argv))
       THEN /\ started' = Append(started, "wikipedia")
            /\ IF enhancedFile = "corrupt" \/ IsEmptyInput(enhancedFile)
                 THEN Exit("wikipedia")
                 ELSE /\ mainPc' = "integrating"
                      /\ UNCHANGED <<failed, exitCode>>
       ELSE /\ mainPc' = "report"
            /\ UNCHANGED <<started, failed, exitCode>>
  /\ UNCHANGED <<argv, rawFile, enhancedFile, withWikipediaFile, reportFile, completed>>
  /\ UNCHANGED exceptMain

\* await enrichMPsWithWikipedia(enhancedMPs) returns the merged list (every
\* enhanced MP is in it) and it was saved
WikipediaCompletes ==
  /\ mainPc = "integrating"
  /\ withWikipediaFile' = enhancedFile
  /\ completed' = completed \cup {"wikipedia"}
  /\ mainPc' = "report"
  /\ UNCHANGED <<argv, rawFile, enhancedFile, reportFile, started, failed, exitCode>>
  /\ UNCHANGED exceptMain

\* enrichMPsWithWikipedia or saveJsonData throws
WikipediaThrows ==
  /\ mainPc = "integrating"
  /\ Exit("wikipedia")
  /\ UNCHANGED <<argv, rawFile, enhancedFile, withWikipediaFile, reportFile, started, completed>>
  /\ UNCHANGED exceptMain

\* the report stage up to the test of finalMPs
ReportBegin ==
  /\ mainPc = "report"
  /\ IF Runs("report", Command(argv))
       THEN /\ started' = Append(started, "report")
            /\ IF \/ FinalThrows(withWikipediaFile, enhancedFile, rawFile)
                  \/ IsEmptyInput(FinalMPs(withWikipediaFile, enhancedFile, rawFile))
                 THEN Exit("report")
                 ELSE /\ mainPc' = "reporting"
                      /\ UNCHANGED <<failed, exitCode>>
       ELSE /\ mainPc' = "done"
            /\ UNCHANGED <<started, failed, exitCode>>
  /\ UNCHANGED <<argv, rawFile, enhancedFile, withWikipediaFile, reportFile, completed>>
  /\ UNCHANGED exceptMain

\* both reports were generated and saved
ReportCompletes ==
  /\ mainPc = "reporting"
  /\ reportFile' = "data"
  /\ completed' = completed \cup {"report"}
  /\ mainPc' = "done"
  /\ UNCHANGED <<argv, rawFile, enhancedFile, withWikipediaFile, started, failed, exitCode>>
  /\ UNCHANGED exceptMain

\* a report generator or saveJsonData throws
ReportThrows ==
  /\ mainPc = "reporting"
  /\ Exit("report")
  /\ UNCHANGED <<argv, rawFile, enhancedFile, withWikipediaFile, reportFile, started, completed>>
  /\ UNCHANGED exceptMain

NextMain ==
  \/ ScrapeBegin \/ ScrapeCompletes \/ ScrapeThrows
  \/ EnrichBegin \/ EnrichCompletes \/ EnrichThrows
  \/ WikipediaBegin \/ WikipediaCompletes \/ WikipediaThrows
  \/ ReportBegin \/ ReportCompletes \/ ReportThrows

SpecMain == InitMain /\ [][NextMain]_vars

\* ------------------------------------------------------------------------
\* Properties of main
\* ------------------------------------------------------------------------

StageOrder == <<"scrape", "enrich", "wikipedia", "report">>

\* the stage entered last, "" before the first
CurrentStage == IF started = <<>> THEN "" ELSE started[Len(started)]

\* the list a stage works on is missing or empty
InputLacking ==
  \/ CurrentStage = "enrich" /\ rawFile \in {"missing", "empty"}
  \/ CurrentStage = "wikipedia" /\ enhancedFile \in {"missing", "empty"}
  \/ /\ CurrentStage = "report"
     /\ FinalMPs(withWikipediaFile, enhancedFile, rawFile) \in {"missing", "empty"}

\* C20: run with 'all' or with no command, main enters the stages scrape,
\* enrich, wikipedia, report in that order, each only after the one before
\* has completed; a stage that finds its input missing or empty, or that
\* throws, ends the process with exit code 1, so that this stage never
\* completes and no later stage is entered; main ends normally only after
\* all four stages completed.
C20_StagesInOrder ==
  Command(argv) = "all" =>
    /\ Len(started) <= Len(StageOrder)
    /\ started = SubSeq(StageOrder, 1, Len(started))
    /\ \A i \in 2..Len(started) : started[i - 1] \in completed
    /\ \A s \in completed : \E i \in 1..Len(started) : started[i] = s
    /\ (CurrentStage \notin completed /\ InputLacking) => exitCode = 1
    /\ exitCode = 1 <=> mainPc = "exited"
    /\ mainPc = "exited" => failed = CurrentStage /\ failed # "" /\ failed \notin completed
    /\ mainPc = "done" => started = StageOrder /\ completed = {"scrape", "enrich", "wikipedia", "report"}

\* C20 witness: with no command, scrape completed with an empty list, enrich
\* was entered, found it and ended the process
C20_Witness ==
  /\ argv = <<>>
  /\ started = <<"scrape", "enrich">>
  /\ completed = {"scrape"}
  /\ rawFile = "empty"
  /\ mainPc = "exited"
  /\ exitCode = 1

\* ------------------------------------------------------------------------
\* The partial-name tier and the tokens of the entity
\* ------------------------------------------------------------------------

\* the candidate tokens longer than 3 characters that are a substring or a
\* superstring of a token of other that is itself longer than 3 characters
SharedLongTokensOfKeys(key, other) ==
  LET tokens == split(key)
      others == split(other)
  IN  {t \in LongTokensOfKey(key) :
         \E o \in 1..Len(others) :
            /\ Len(others[o]) > 3
            /\ \/ includes(others[o], tokens[t])
               \/ includes(tokens[t], others[o])}

SharedLongTokenCounts ==
  [name \in Names |->
     [other \in Names |->
        Cardinality(SharedLongTokensOfKeys(Normalized(name), Normalized(other)))]]

\* the number of long tokens of record r shared with a long token of entity e
SharedLongTokens(r, e) == SharedLongTokenCounts[r.name][e.name]

\* C21 (as claimed): the partial-name tier counts a candidate token as
\* matching only through an entity token longer than 3 characters: a record
\* it resolved to an entity meets the threshold with that entity when only
\* such entity tokens are counted.
C21_EntityTokensFiltered ==
  \A k \in Processed :
    (matches[k].matchType = "fuzzy" /\ matches[k].mp \in Loaded) =>
      2 * SharedLongTokens(wikipediaMPs[k], loadedMPs[matches[k].mp])
        >= LongTokens(wikipediaMPs[k])

\* ------------------------------------------------------------------------
\* The match statistics
\* ------------------------------------------------------------------------

\* the processed records whose match result is of type t
ResolvedAs(t) == {k \in Processed : matches[k].mp # NoMP /\ matches[k].matchType = t}

Unresolved == {k \in Processed : matches[k].mp = NoMP}

\* C22: every processed record is counted in exactly one counter: the five
\* counters sum to the number of records processed; direct, constituency,
\* county-fuzzy and fuzzy count the records resolved by their tier (fuzzy:
\* the partial-name tier) and no-match counts the records appended.
C22_CountersPartitionRecords ==
  /\ stats.directMatches + stats.constituencyMatches + stats.countyFuzzyMatches
       + stats.fuzzyMatches + stats.noMatches = Len(wikipediaMPs)
  /\ stats.directMatches = Cardinality(ResolvedAs("none"))
  /\ stats.constituencyMatches = Cardinality(ResolvedAs("constituency"))
  /\ stats.countyFuzzyMatches = Cardinality(ResolvedAs("county_fuzzy"))
  /\ stats.fuzzyMatches = Cardinality(ResolvedAs("fuzzy"))
  /\ stats.noMatches = Cardinality(Unresolved)
  /\ stats.noMatches = Len(existingMPs) - Len(loadedMPs)

\* C22 witness: a finished run of two records, one resolved by the
\* partial-name tier and one appended
C22_Witness ==
  /\ pc = "done"
  /\ Len(wikipediaMPs) = 2
  /\ stats.fuzzyMatches = 1
  /\ stats.noMatches = 1
  /\ matches[1].matchType = "fuzzy"
  /\ matches[2].mp = NoMP

\* ------------------------------------------------------------------------
\* The frame of a merge step
\* ------------------------------------------------------------------------

RecordFields ==
  {"name", "constituency", "county", "party", "gender", "wikipediaUrl",
   "wikipediaData"}

\* C23: a step that processes a record r either appends exactly one entity
\* carrying r's fields at the end of the list and leaves all others as they
\* were (r matched nothing), or keeps the length and changes at most the
\* matched entity (r matched); every other step leaves the list alone. So
\* the list never shrinks and entities keep their positions.
C23_MergeFrame ==
  [][ IF Len(wikipediaMPs') = Len(wikipediaMPs) + 1
        THEN LET r == wikipediaMPs'[Len(wikipediaMPs')]
                 m == matches'[Len(matches')]
                 n == Len(existingMPs)
             IN  IF m.mp = NoMP
                   THEN /\ Len(existingMPs') = n + 1
                        /\ \A i \in 1..n : existingMPs'[i] = existingMPs[i]
                        /\ \A f \in RecordFields : existingMPs'[n + 1][f] = r[f]
                   ELSE /\ Len(existingMPs') = n
                        /\ m.mp \in 1..n
                        /\ \A i \in 1..n :
                             i # m.mp => existingMPs'[i] = existingMPs[i]
                        /\ existingMPs'[m.mp].name = existingMPs[m.mp].name
        ELSE existingMPs' = existingMPs ]_vars

\* C23 witness: two loaded entities; the first record matched nothing and was
\* appended, the second matched a loaded entity and changed it
C23_Witness ==
  /\ pc = "done"
  /\ Len(loadedMPs) = 2
  /\ Len(wikipediaMPs) = 2
  /\ matches[1].mp = NoMP
  /\ matches[2].mp \in Loaded
  /\ Len(existingMPs) = 3
  /\ existingMPs[matches[2].mp] # loadedMPs[matches[2].mp]

\* ------------------------------------------------------------------------
\* The indexes during a run
\* ------------------------------------------------------------------------

\* record j filled in the constituency of loaded entity i, empty until then
FilledConstituency(j, i) ==
  /\ matches[j].mp = i
  /\ ~Truthy(loadedMPs[i].constituency)
  /\ Truthy(wikipediaMPs[j].constituency)
  /\ \A h \in 1..(j - 1) :
       matches[h].mp = i => ~Truthy(wikipediaMPs[h].constituency)

\* C24 (as claimed): after record j filled in the constituency of entity i,
\* a later record k of the run that carries that constituency and whose
\* normalized name is no key of the name index resolves to entity i by the
\* constituency tier (no other entity of the list carries the constituency).
C24_IndexFollowsMerge ==
  \A j, k \in Processed : \A i \in Loaded :
    ( /\ j < k
      /\ FilledConstituency(j, i)
      /\ SameConstituency(wikipediaMPs[j], wikipediaMPs[k])
      /\ ~HasKey(mpsByName, KeyOf(wikipediaMPs[k]))
      /\ \A o \in 1..Len(existingMPs) :
           o # i => ~SameConstituency(existingMPs[o], wikipediaMPs[k]) )
    => /\ matches[k].mp = i
       /\ matches[k].matchType = "constituency"

\* ------------------------------------------------------------------------
\* scrapeWikipediaMPs (wikipedia-mps-scraper.js)
\* ------------------------------------------------------------------------

\* WIKIPEDIA_SOURCES: two lists, three categories, one official page
WikipediaSources ==
  <<"mpLists", "mpLists", "categories", "categories", "categories", "official">>

\* if (allMPs.length < 50): the official page is tried
FewMPs == 50

\* the calls of scrapeWikipediaMPs a behaviour has
MaxCalls == 2

\* what a page yields
pJohn == [name |-> "JOHN MWANGI", wikipediaUrl |-> "w/John"]
pDrJohn == [name |-> "Dr. John Mwangi", wikipediaUrl |-> Undefined]
pMary == [name |-> "Mary Wanjiru", wikipediaUrl |-> "w/Mary"]
PageMPs == {<<pJohn>>, <<pMary, pDrJohn>>}

\* deduplicateMPs after the first n records: uniqueMPs
RECURSIVE deduplicateUpTo(_, _)
deduplicateUpTo(mps, n) ==
  IF n = 0 THEN <<>>
  ELSE LET uniqueMPs == deduplicateUpTo(mps, n - 1)
           seenNames == {Normalized(uniqueMPs[i].name) : i \in 1..Len(uniqueMPs)}
       IN  IF Normalized(mps[n].name) \notin seenNames
             THEN Append(uniqueMPs, mps[n])
             ELSE uniqueMPs

deduplicateMPs(mps) == deduplicateUpTo(mps, Len(mps))

\* no call yet; the checkpoint directory is empty
InitExtract ==
  /\ extractDir = {}
  /\ extractClock = 0
  /\ allMPs = <<>>
  /\ sourceIndex = 0
  /\ extractPc = "idle"
  /\ extractResult = <<>>
  /\ extractCalls = 0
  /\ IdleExceptExtract

\* scrapeWikipediaMPs is called: the data of the latest checkpoint is
\* returned, or the loops start with allMPs = []
StartExtraction ==
  /\ extractPc \in {"idle", "returned"}
  /\ extractCalls < MaxCalls
  /\ extractCalls' = extractCalls + 1
  /\ LET found == findLatestCheckpoint(extractDir, WikipediaExtraction)
     IN  IF ~found.isNull
           THEN /\ extractResult' = found.data
                /\ extractPc' = "returned"
                /\ UNCHANGED <<allMPs, sourceIndex>>
           ELSE /\ allMPs' = <<>>
                /\ sourceIndex' = 0
                /\ extractPc' = "fetching"
                /\ extractResult' = <<>>
  /\ UNCHANGED <<extractDir, extractClock>>
  /\ UNCHANGED exceptExtract

\* the next source is an official one and allMPs.length >= 50
SkipsOfficial ==
  /\ sourceIndex < Len(WikipediaSources)
  /\ WikipediaSources[sourceIndex + 1] = "official"
  /\ Len(allMPs) >= FewMPs

\* one iteration of a loop: the page is fetched, its MPs are pushed and the
\* checkpoint is saved
FetchSource ==
  /\ extractPc = "fetching"
  /\ sourceIndex < Len(WikipediaSources)
  /\ ~SkipsOfficial
  /\ \E pageMPs \in PageMPs :
       /\ allMPs' = allMPs \o pageMPs
       /\ extractDir' = saveCheckpoint(extractDir, WikipediaExtraction,
                                       allMPs', extractClock + 1)
  /\ extractClock' = extractClock + 1
  /\ sourceIndex' = sourceIndex + 1
  /\ UNCHANGED <<extractPc, extractResult, extractCalls>>
  /\ UNCHANGED exceptExtract

\* one iteration of a loop: the fetch throws, the error is logged
FetchFails ==
  /\ extractPc = "fetching"
  /\ sourceIndex < Len(WikipediaSources)
  /\ ~SkipsOfficial
  /\ extractClock' = extractClock + 1
  /\ sourceIndex' = sourceIndex + 1
  /\ UNCHANGED <<extractDir, allMPs, extractPc, extractResult, extractCalls>>
  /\ UNCHANGED exceptExtract

\* the loops are over: return this.deduplicateMPs(allMPs)
ReturnUnique ==
  /\ extractPc = "fetching"
  /\ sourceIndex >= Len(WikipediaSources) \/ SkipsOfficial
  /\ extractResult' = deduplicateMPs(allMPs)
  /\ extractPc' = "returned"
  /\ UNCHANGED <<extractDir, extractClock, allMPs, sourceIndex, extractCalls>>
  /\ UNCHANGED exceptExtract

\* the process is stopped during the loops; the files stay
StopExtraction ==
  /\ extractPc = "fetching"
  /\ allMPs' = <<>>
  /\ sourceIndex' = 0
  /\ extractPc' = "idle"
  /\ UNCHANGED <<extractDir, extractClock, extractResult, extractCalls>>
  /\ UNCHANGED exceptExtract

NextExtract ==
  \/ StartExtraction \/ FetchSource \/ FetchFails \/ ReturnUnique
  \/ StopExtraction

SpecExtract == InitExtract /\ [][NextExtract]_vars

\* C25 (as claimed): what scrapeWikipediaMPs returns holds no two records of
\* one normalized name, on the path from a checkpoint too.
C25_ReturnsUniqueNames ==
  extractPc = "returned" =>
    \A i, j \in 1..Len(extractResult) :
      Normalized(extractResult[i].name) = Normalized(extractResult[j].name)
        => i = j

\* ------------------------------------------------------------------------
\* The sequential scraper (slow-parliament-scraper.js)
\* ------------------------------------------------------------------------

\* while (... && currentPage <= 35 && ...)
LastPage == 35

\* while (... && consecutiveFailures < 3)
FailureLimit == 3

\* the requests of one run that time out
MaxTimeouts == 1

\* (mutant) the loop entered for one more page
LoopGoesOnPastLast ==
  hasMorePages /\ currentPage <= LastPage + 1 /\ consecutiveFailures < FailureLimit

\* the condition of the while loop
LoopGoesOn ==
  hasMorePages /\ currentPage <= LastPage /\ consecutiveFailures < FailureLimit

\* scrapeAllMPs was called
InitSlow ==
  /\ slowMPs = <<>>
  /\ currentPage = 0
  /\ hasMorePages = TRUE
  /\ consecutiveFailures = 0
  /\ requested = -1
  /\ timeouts = 0
  /\ slowPc = "looping"
  /\ IdleExceptSlow

\* what scrapeMPsFromPage returns after ETIMEDOUT or ECONNABORTED
TimeoutSucceeds == TRUE

\* the rest of the iteration, given what scrapeMPsFromPage returned
AfterPage(success) ==
  IF success
    THEN /\ consecutiveFailures' = 0
         /\ currentPage' = currentPage + 1
    ELSE /\ consecutiveFailures' = consecutiveFailures + 1
         /\ UNCHANGED currentPage

\* an iteration in which the page is fetched and its rows are pushed
PageScraped ==
  /\ slowPc = "looping"
  /\ LoopGoesOn
  /\ requested' = currentPage
  /\ slowMPs' = Append(slowMPs, currentPage)
  /\ AfterPage(TRUE)
  /\ UNCHANGED <<hasMorePages, timeouts, slowPc>>
  /\ UNCHANGED exceptSlow

\* an iteration in which the request times out
PageTimesOut ==
  /\ slowPc = "looping"
  /\ LoopGoesOn
  /\ timeouts < MaxTimeouts
  /\ timeouts' = timeouts + 1
  /\ requested' = currentPage
  /\ AfterPage(TimeoutSucceeds)
  /\ UNCHANGED <<slowMPs, hasMorePages, slowPc>>
  /\ UNCHANGED exceptSlow

\* an iteration in which the page has no rows or the request fails otherwise
PageFails ==
  /\ slowPc = "looping"
  /\ LoopGoesOn
  /\ requested' = currentPage
  /\ AfterPage(FALSE)
  /\ UNCHANGED <<slowMPs, hasMorePages, timeouts, slowPc>>
  /\ UNCHANGED exceptSlow

\* the loop ends: clearInterval, the results are written
LoopEnds ==
  /\ slowPc = "looping"
  /\ ~LoopGoesOn
  /\ slowPc' = "done"
  /\ UNCHANGED <<slowMPs, currentPage, hasMorePages, consecutiveFailures,
                 requested, timeouts>>
  /\ UNCHANGED exceptSlow

NextSlow == PageScraped \/ PageTimesOut \/ PageFails \/ LoopEnds

SpecSlow == InitSlow /\ [][NextSlow]_vars

\* every await of the loop completes: requests end by a response, an error or
\* the 60 s timeout, and the delays are timers
SpecSlowFair == SpecSlow /\ WF_vars(NextSlow)

\* C26 (as claimed): the page counter has advanced past page p only after the
\* rows of page p were appended to allMPs; a failing page is not skipped.
C26_PagesNotSkipped ==
  \A p \in 0..(currentPage - 1) :
    \E i \in 1..Len(slowMPs) : slowMPs[i] = p

\* C30: under the fair specification scrapeAllMPs always terminates: no page
\* above 35 is requested, once a page has failed 3 consecutive times the next
\* step ends the loop without another request, and every run reaches its end
\* and stays there.
C30_SequentialTerminates ==
  /\ [](requested <= LastPage /\ consecutiveFailures <= FailureLimit)
  /\ [][consecutiveFailures = FailureLimit
          => (slowPc' = "done" /\ requested' = requested)]_vars
  /\ <>[](slowPc = "done")

\* C30 witness: a run with scraped pages, a timeout and three consecutive
\* failures of one page has ended
C30_Witness ==
  /\ slowPc = "done"
  /\ consecutiveFailures = FailureLimit
  /\ timeouts = 1
  /\ Len(slowMPs) >= 2
  /\ requested = currentPage

\* ------------------------------------------------------------------------
\* Names of short tokens only
\* ------------------------------------------------------------------------

\* C27 (as claimed): a record whose normalized name is not empty and has no
\* token longer than 3 characters is never resolved to an entity by the
\* partial-name tier.
C27_ShortNamesUnmatched ==
  \A k \in Processed :
    (KeyOf(wikipediaMPs[k]) # <<>> /\ LongTokens(wikipediaMPs[k]) = 0)
      => ~(matches[k].mp # NoMP /\ matches[k].matchType = "fuzzy")

\* ------------------------------------------------------------------------
\* BaseScraper.scrapeAllMPs: pages scraped in parallel batches
\* ------------------------------------------------------------------------

\* httpConfig.batchSize
pageBatchSize == 3

\* the largest maxPage the pagination of the first page shows
MaxLastPage == 3

\* the MP rows of a page
RowsPerPage == 2

\* a page task that was just started
NewTask == [rows |-> 0, state |-> "running"]

\* Math.min(start + batchSize - 1, maxPage)
BatchEnd == Min(start + pageBatchSize - 1, maxPage)

\* Promise.all(pagePromises) is resolved
BatchSettled == \A p \in DOMAIN tasks : tasks[p].state # "running"

\* scrapeAllMPs was called on a new BaseScraper
InitBatch ==
  /\ scrapedMPs = <<>>
  /\ maxPage = 0
  /\ start = 0
  /\ tasks = <<>>
  /\ saveIntervalId = "none"
  /\ progressSaved = "never"
  /\ batchPc = "first"
  /\ IdleExceptBatch

\* the first page is fetched, maxPage is read and the timer is started
FirstPageFetched ==
  /\ batchPc = "first"
  /\ \E last \in 0..MaxLastPage : maxPage' = last
  /\ saveIntervalId' = "active"
  /\ batchPc' = "launch"
  /\ UNCHANGED <<scrapedMPs, start, tasks, progressSaved>>
  /\ UNCHANGED exceptBatch

\* the first page cannot be fetched: catch, saveProgress, throw
FirstPageFails ==
  /\ batchPc = "first"
  /\ batchPc' = "thrown"
  /\ UNCHANGED <<scrapedMPs, maxPage, start, tasks, saveIntervalId, progressSaved>>
  /\ UNCHANGED exceptBatch

\* the head of the batch loop: one task per page of the batch, or the end of
\* the loop: clearInterval and the final save
LaunchBatch ==
  /\ batchPc = "launch"
  /\ IF start <= maxPage
       THEN /\ tasks' = [p \in start..BatchEnd |-> NewTask]
            /\ batchPc' = "running"
            /\ UNCHANGED saveIntervalId
       ELSE /\ saveIntervalId' = "cleared"
            /\ \E saved \in BOOLEAN :
                 batchPc' = IF saved THEN "returned" ELSE "thrown"
            /\ UNCHANGED tasks
  /\ UNCHANGED <<scrapedMPs, maxPage, start, progressSaved>>
  /\ UNCHANGED exceptBatch

\* the task of page p pushes its next row and awaits again, or returns true
\* after the last row
PushRow ==
  /\ batchPc = "running"
  /\ \E p \in DOMAIN tasks :
       /\ tasks[p].state = "running"
       /\ scrapedMPs' = Append(scrapedMPs, <<p, tasks[p].rows + 1>>)
       /\ tasks' = [tasks EXCEPT ![p] =
                      [rows |-> @.rows + 1,
                       state |-> IF @.rows + 1 = RowsPerPage
                                   THEN "done" ELSE "running"]]
  /\ UNCHANGED <<maxPage, start, saveIntervalId, progressSaved, batchPc>>
  /\ UNCHANGED exceptBatch

\* the page of task p cannot be fetched or has no rows: return false
PageTaskFails ==
  /\ batchPc = "running"
  /\ \E p \in DOMAIN tasks :
       /\ tasks[p].state = "running"
       /\ tasks[p].rows = 0
       /\ tasks' = [tasks EXCEPT ![p].state = "failed"]
  /\ UNCHANGED <<scrapedMPs, maxPage, start, saveIntervalId, progressSaved, batchPc>>
  /\ UNCHANGED exceptBatch

\* Promise.all is resolved and the checkpoint is saved: the next batch
BatchSaved ==
  /\ batchPc = "running"
  /\ BatchSettled
  /\ start' = start + pageBatchSize
  /\ batchPc' = "launch"
  /\ UNCHANGED <<scrapedMPs, maxPage, tasks, saveIntervalId, progressSaved>>
  /\ UNCHANGED exceptBatch

\* Promise.all is resolved and saveCheckpoint throws: catch, saveProgress,
\* throw
BatchSaveThrows ==
  /\ batchPc = "running"
  /\ BatchSettled
  /\ batchPc' = "thrown"
  /\ UNCHANGED <<scrapedMPs, maxPage, start, tasks, saveIntervalId, progressSaved>>
  /\ UNCHANGED exceptBatch

\* the interval timer calls saveProgress
TimerFires ==
  /\ saveIntervalId = "active"
  /\ progressSaved' =
       IF batchPc \in {"returned", "thrown"} THEN "finished" ELSE "running"
  /\ UNCHANGED <<scrapedMPs, maxPage, start, tasks, saveIntervalId, batchPc>>
  /\ UNCHANGED exceptBatch

NextBatch ==
  \/ FirstPageFetched \/ FirstPageFails \/ LaunchBatch \/ PushRow
  \/ PageTaskFails \/ BatchSaved \/ BatchSaveThrows \/ TimerFires

SpecBatch == InitBatch /\ [][NextBatch]_vars

\* C28 (as claimed): when scrapeAllMPs has returned, the rows stand in
\* allMPs in page order, each once, whatever the interleaving of the page
\* tasks was.
C28_RowsInPageOrder ==
  batchPc = "returned" =>
    \A i, j \in 1..Len(scrapedMPs) :
      i < j =>
        \/ scrapedMPs[i][1] < scrapedMPs[j][1]
        \/ /\ scrapedMPs[i][1] = scrapedMPs[j][1]
           /\ scrapedMPs[i][2] < scrapedMPs[j][2]

\* C29 (as claimed): when scrapeAllMPs has returned or thrown after the
\* timer was started, the timer is cancelled and has made no saveProgress
\* call since.
C29_TimerCancelled ==
  (batchPc \in {"returned", "thrown"} /\ saveIntervalId # "none") =>
    /\ saveIntervalId = "cleared"
    /\ progressSaved # "finished"

====
